---- MODULE Spec2Model ----
(***************************************************************************)
(* Model of the streaming beat-analysis orchestrator of mixxxlab:          *)
(*   src/pkg/analysis/lib/analyzer.cpp  (streaming API, whole-file         *)
(*                                       wrappers, result assembly)        *)
(*   src/analyzer/lib/analyzer.cpp      (first-generation whole-file API)  *)
(*                                                                         *)
(* Conventions.                                                            *)
(*  - A C pointer is NULL (the empty tuple) or Ptr(x), a one-element tuple *)
(*    holding the object pointed to.                                       *)
(*  - Sample values are integers counted in halves of the float spacing:   *)
(*    every integer is a double, only the even integers are floats.  The   *)
(*    average of two floats is then always a double and not always a       *)
(*    float, as in the code.                                               *)
(*  - Real-valued configuration fields are rationals [n, d] with d > 0.    *)
(*  - Times are kept as integer numerators over the denominator            *)
(*    2 * sampleRate (half frames), so that every time the code computes   *)
(*    is exact.                                                            *)
(*  - The qm-dsp primitives (detection function, tempo tracker, downbeat   *)
(*    detector, segmenter) and malloc are the environment: their outputs   *)
(*    are inputs of the actions, drawn from bounded sets.                  *)
(***************************************************************************)
EXTENDS Integers, Sequences, FiniteSets, TLC

VARIABLES
    handle,     \* the caller's QMAnalyzer*: "null", "live" or "freed"
    analyzer,   \* NULL, or Ptr(the QMAnalyzer object) while it is allocated
    last,       \* the last API call: its name, outcome and primitive calls
    result,     \* the result object the caller holds (or NULL)
    crashed     \* the process was aborted by an out-of-bounds write

vars == <<handle, analyzer, last, result, crashed>>

----------------------------------------------------------------------------
(* Bounds of the model *)

\* frames accepted by one session in total
MaxFrames == 7
\* detection-function values one session accumulates
MaxDF == 6
\* frames in one analyzer_process call
MaxChunk == 2

----------------------------------------------------------------------------
(* Pointers and rationals *)

NULL == <<>>
Ptr(x) == <<x>>
Deref(p) == p[1]

Rat(n, d) == [n |-> n, d |-> d]
RatPos(r) == r.n > 0

\* the sum of a sequence of numbers, taken by halves
RECURSIVE SeqSum(_)
SeqSum(s) ==
    IF s = <<>> THEN 0
    ELSE IF Len(s) = 1 THEN s[1]
    ELSE SeqSum(SubSeq(s, 1, Len(s) \div 2))
         + SeqSum(SubSeq(s, Len(s) \div 2 + 1, Len(s)))

----------------------------------------------------------------------------
(* Defaults (analyzer.cpp:26-42) *)

kDefaultStepSecs == Rat(1161, 100000)
kDefaultMaxBinHz == 50
kDefaultDBRise == Rat(3, 1)
kDefaultInputTempo == Rat(120, 1)
kDefaultAlpha == Rat(9, 10)
kDefaultTightness == Rat(4, 1)
kDefaultBeatsPerBar == 4
DF_COMPLEXSD == 4

analyzer_default_config ==
    [df_type |-> DF_COMPLEXSD,
     step_secs |-> kDefaultStepSecs,
     max_bin_hz |-> kDefaultMaxBinHz,
     db_rise |-> kDefaultDBRise,
     adaptive_whitening |-> 0,
     input_tempo |-> kDefaultInputTempo,
     constrain_tempo |-> 0,
     alpha |-> kDefaultAlpha,
     tightness |-> kDefaultTightness,
     beats_per_bar |-> kDefaultBeatsPerBar]

getEffectiveConfig(config) ==
    IF config # NULL THEN Deref(config) ELSE analyzer_default_config

\* A caller-supplied configuration with every field zero except the two
\* that size the framing.
CustomConfig(step, maxBin) ==
    [df_type |-> 0,
     step_secs |-> step,
     max_bin_hz |-> maxBin,
     db_rise |-> Rat(0, 1),
     adaptive_whitening |-> 0,
     input_tempo |-> Rat(0, 1),
     constrain_tempo |-> 0,
     alpha |-> Rat(0, 1),
     tightness |-> Rat(0, 1),
     beats_per_bar |-> 0]

\* A caller-supplied configuration with a 1/50 s step and 100 Hz bins, a
\* detection function, tempo hint, tightness and bar length of its own, and
\* a negative dB rise and alpha.
MixedConfig ==
    [df_type |-> 1,
     step_secs |-> Rat(1, 50),
     max_bin_hz |-> 100,
     db_rise |-> Rat(-1, 1),
     adaptive_whitening |-> 1,
     input_tempo |-> Rat(90, 1),
     constrain_tempo |-> 1,
     alpha |-> Rat(-1, 2),
     tightness |-> Rat(2, 1),
     beats_per_bar |-> 1]

\* The config arguments the callers of the model pass: none (defaults), one
\* with every field zero (every field falls back to its default), one
\* with a 1/50 s step and 50 Hz bins, and the mixed one.
ConfigArgs ==
    {NULL,
     Ptr(CustomConfig(Rat(0, 1), 0)),
     Ptr(CustomConfig(Rat(1, 50), 50)),
     Ptr(MixedConfig)}

\* With these rates the configurations give every framing regime:
\*    50 Hz: window 1 step 0 (defaults), window 1 step 1
\*   100 Hz: window 2 step 1 (defaults, overlap), window 2 step 2 (no overlap),
\*           window 1 step 2 (mixed: the step exceeds the window)
\*   150 Hz: window 4 step 1 (defaults), window 4 step 3, window 1 step 3
SampleRateArgs == {-1, 0, 50, 100, 150}
ChannelArgs == {0, 1, 2, 3, 6}

----------------------------------------------------------------------------
(* QMAnalyzer construction *)

\* MathUtilities::nextPowerOfTwo of qm-dsp: x itself when it is a power of
\* two, 1 when x < 1, otherwise 1 shifted left once per significant bit.
RECURSIVE ShiftCount(_)
ShiftCount(x) == IF x = 0 THEN 0 ELSE 1 + ShiftCount(x \div 2)

isPowerOfTwo(x) ==
    /\ x >= 1
    /\ \E k \in 0..ShiftCount(x) : 2^k = x

nextPowerOfTwo(x) ==
    IF isPowerOfTwo(x) THEN x
    ELSE IF x < 1 THEN 1
    ELSE 2^ShiftCount(x)

\* static_cast<int>(sampleRate * stepSecs) for sampleRate > 0, stepSecs > 0
StepSizeFrames(sampleRate, stepSecs) == (sampleRate * stepSecs.n) \div stepSecs.d

\* sampleRate / maxBinHz, both > 0
WindowSize(sampleRate, maxBinHz) == nextPowerOfTwo(sampleRate \div maxBinHz)

\* the detection-function type is handed on as it is given
DFConfigOfRawType(cfg, stepSizeFrames, windowSize) ==
    [DFType |-> cfg.df_type,
     stepSize |-> stepSizeFrames,
     frameLength |-> windowSize,
     dbRise |-> IF RatPos(cfg.db_rise) THEN cfg.db_rise ELSE kDefaultDBRise,
     adaptiveWhitening |-> cfg.adaptive_whitening # 0,
     whiteningRelaxCoeff |-> -1,
     whiteningFloor |-> -1]

\* analyzer.cpp:66-76: the configuration the DetectionFunction is built with
makeDetectionFunctionConfig(cfg, stepSizeFrames, windowSize) ==
    [DFType |-> IF cfg.df_type > 0 THEN cfg.df_type ELSE DF_COMPLEXSD,
     stepSize |-> stepSizeFrames,
     frameLength |-> windowSize,
     dbRise |-> IF RatPos(cfg.db_rise) THEN cfg.db_rise ELSE kDefaultDBRise,
     adaptiveWhitening |-> cfg.adaptive_whitening # 0,
     whiteningRelaxCoeff |-> -1,
     whiteningFloor |-> -1]

\* analyzer.cpp:134-135: the step and the bin size the framing is computed
\* from
EffectiveStepSecs(cfg) ==
    IF RatPos(cfg.step_secs) THEN cfg.step_secs ELSE kDefaultStepSecs

EffectiveMaxBinHz(cfg) ==
    IF cfg.max_bin_hz > 0 THEN cfg.max_bin_hz ELSE kDefaultMaxBinHz

\* analyzer.cpp:127-144.  detectionFunction holds the configuration the
\* DetectionFunction object was constructed with.  emitted is a history
\* variable, not a member of the struct: the windows handed to
\* processTimeDomain so far, each with the number of frames consumed when it
\* was handed over.
QMAnalyzer(sr, ch, cfg) ==
    LET stepSecs == EffectiveStepSecs(cfg)
        maxBinHz == EffectiveMaxBinHz(cfg)
        windowSize == WindowSize(sr, maxBinHz)
    IN  [sampleRate |-> sr,
         channels |-> ch,
         config |-> cfg,
         stepSizeFrames |-> StepSizeFrames(sr, stepSecs),
         windowSize |-> windowSize,
         detectionFunction |->
             makeDetectionFunctionConfig(cfg, StepSizeFrames(sr, stepSecs), windowSize),
         emitted |-> <<>>,
         detectionResults |-> <<>>,
         overlapBuffer |-> [i \in 1..windowSize |-> 0],
         overlapPos |-> 0,
         totalFramesProcessed |-> 0,
         audioBuffer |-> <<>>]

\* analyzer_create without its check of the sample rate
CreateAnyRate(sample_rate, channels, config, allocOk) ==
    IF channels <= 0 \/ channels > 2 THEN NULL
    ELSE IF ~allocOk THEN NULL
    ELSE Ptr(QMAnalyzer(sample_rate, channels, getEffectiveConfig(config)))

\* analyzer_create without its upper limit on the channels
CreateAnyChannels(sample_rate, channels, config, allocOk) ==
    IF sample_rate <= 0 \/ channels <= 0 THEN NULL
    ELSE IF ~allocOk THEN NULL
    ELSE Ptr(QMAnalyzer(sample_rate, channels, getEffectiveConfig(config)))

\* analyzer_create: NULL, or a pointer to the new session.  allocOk is
\* whether operator new (and the DetectionFunction constructor) succeed.
analyzer_create(sample_rate, channels, config, allocOk) ==
    IF sample_rate <= 0 \/ channels <= 0 \/ channels > 2 THEN NULL
    ELSE IF ~allocOk THEN NULL
    ELSE Ptr(QMAnalyzer(sample_rate, channels, getEffectiveConfig(config)))

----------------------------------------------------------------------------
(* analyzer_process *)

\* an invocation of an external primitive, as the trace of a call records it
Invoke(fn, args) == [fn |-> fn, args |-> args]

\* The stream the callers of the model pass: the float of channel c of
\* frame f (both counted from 1).  Every frame differs from every other, and
\* the mean of a frame's first two channels is not a float.
StreamSample(f, c) == IF c = 1 THEN 4 * f ELSE 4 * f + 2

\* the interleaved samples of the num_frames frames after the first pos
StreamChunk(pos, num_frames, channels) ==
    [i \in 1..(num_frames * channels) |->
        StreamSample(pos + ((i - 1) \div channels) + 1, ((i - 1) % channels) + 1)]

\* the float nearest to a double (ties to the even float)
ToFloat(d) ==
    IF d % 2 = 0 THEN d
    ELSE IF ((d - 1) \div 2) % 2 = 0 THEN d - 1 ELSE d + 1

\* the values the detection function returns for a window: silence, or an
\* onset strength
DFVals == {0, 1}

\* the left channel is taken for the mix
DownmixLeftOnly(stereo, frames) ==
    [i \in 1..frames |-> stereo[2 * i - 1]]

downmixToMono(stereo, frames) ==
    [i \in 1..frames |-> (stereo[2 * i - 1] + stereo[2 * i]) \div 2]

convertToDouble(src, count) == [i \in 1..count |-> src[i]]

\* One iteration of the per-frame loop (analyzer.cpp:338-365).  a is the
\* session extended with the local state of the call: oracle, the values
\* processTimeDomain will return, and oob, whether a store has gone past
\* the end of overlapBuffer.  Such a store leaves the buffer as it is.
ProcessSample(a, x) ==
    LET W == a.windowSize
        inBounds == a.overlapPos < W
        buf1 == IF inBounds
                THEN [a.overlapBuffer EXCEPT ![a.overlapPos + 1] = x]
                ELSE a.overlapBuffer
        pos1 == a.overlapPos + 1
        a1 == [a EXCEPT !.overlapBuffer = buf1,
                        !.overlapPos = pos1,
                        !.totalFramesProcessed = @ + 1,
                        !.oob = @ \/ ~inBounds]
        shift == a.stepSizeFrames
    IN  IF pos1 >= W
        THEN [a1 EXCEPT
                !.emitted = Append(@, [window |-> buf1,
                                       frames |-> a.totalFramesProcessed + 1]),
                !.detectionResults = Append(@, Head(a.oracle)),
                !.oracle = Tail(@),
                !.overlapBuffer =
                    IF shift < W
                    THEN SubSeq(buf1, shift + 1, W) \o SubSeq(buf1, W - shift + 1, W)
                    ELSE buf1,
                !.overlapPos = IF shift < W THEN W - shift ELSE 0]
        ELSE a1

\* The per-frame loop (analyzer.cpp:338-365) over the frames mono, from the
\* state a.  The frames are taken in order; the loop is evaluated by
\* halves, the state after the first half being computed before the second
\* half is entered, so that a chunk of many frames nests no deeper than a
\* short one.
RECURSIVE ProcessLoop(_, _)
ProcessOn(a, mono) ==
    IF a.totalFramesProcessed >= 0 THEN ProcessLoop(a, mono) ELSE a

ProcessLoop(a, mono) ==
    IF mono = <<>> THEN a
    ELSE IF Len(mono) = 1 THEN ProcessSample(a, mono[1])
    ELSE ProcessOn(ProcessLoop(a, SubSeq(mono, 1, Len(mono) \div 2)),
                   SubSeq(mono, Len(mono) \div 2 + 1, Len(mono)))

\* The body of analyzer_process after its argument check: the session
\* after the call, with the call's oob flag.
ProcessBody(an, samples, num_frames, oracle) ==
    LET monoBuffer == IF an.channels = 1
                      THEN convertToDouble(samples, num_frames)
                      ELSE downmixToMono(samples, num_frames)
        stored == [an EXCEPT !.audioBuffer =
                      @ \o [i \in 1..num_frames |-> ToFloat(monoBuffer[i])]]
        start == [f \in DOMAIN stored \cup {"oracle", "oob"} |->
                      IF f = "oracle" THEN oracle
                      ELSE IF f = "oob" THEN FALSE
                      ELSE stored[f]]
        end == ProcessLoop(start, monoBuffer)
    IN  [an |-> [f \in DOMAIN an |-> end[f]], oob |-> end.oob]

\* analyzer.cpp:351: the processTimeDomain invocations of a call that took
\* the session from an to after, each with the window it was handed
DFCalls(an, after) ==
    [i \in 1..(Len(after.emitted) - Len(an.emitted)) |->
        Invoke("processTimeDomain",
               [window |-> after.emitted[Len(an.emitted) + i].window])]

\* the argument check of analyzer_process
ProcessRejects(analyzerArg, samples, num_frames) ==
    analyzerArg = NULL \/ samples = NULL \/ num_frames = 0

\* analyzer.cpp:624-627
analyzer_get_df_count(analyzerArg) ==
    IF analyzerArg = NULL THEN 0 ELSE Len(Deref(analyzerArg).detectionResults)

\* the number of windows a call of num_frames frames emits
NumWindows(an, num_frames) ==
    LET zeros == [i \in 1..(num_frames * an.channels) |-> 0]
        dry == ProcessBody(an, zeros, num_frames, [i \in 1..num_frames |-> 0])
    IN  Len(dry.an.detectionResults) - Len(an.detectionResults)

----------------------------------------------------------------------------
(* analyzer_finalize *)

kDefaultSegFeatureType == 1
kDefaultSegHopSize == Rat(2, 10)
kDefaultSegWindowSize == Rat(6, 10)
kDefaultSegNumClusters == 10
kDefaultSegNumHMMStates == 40
kDownbeatDecimationFactor == 16
CUE_TYPE_PHRASE == 2
CUE_TYPE_SECTION == 3

segmenter_default_config ==
    [feature_type |-> kDefaultSegFeatureType,
     hop_size |-> kDefaultSegHopSize,
     window_size |-> kDefaultSegWindowSize,
     num_clusters |-> kDefaultSegNumClusters,
     num_hmm_states |-> kDefaultSegNumHMMStates]

getEffectiveSegConfig(config) ==
    IF config # NULL THEN Deref(config) ELSE segmenter_default_config

\* calloc(1, sizeof(AnalyzerResultEx))
EmptyResultEx ==
    [bpm |-> Rat(0, 1), beats |-> NULL, num_beats |-> 0,
     sample_rate |-> 0, total_frames |-> 0, duration |-> Rat(0, 1),
     error |-> NULL,
     detection_function |-> NULL, df_length |-> 0,
     step_size_frames |-> 0, window_size |-> 0,
     beat_periods |-> NULL, bp_length |-> 0,
     downbeats |-> NULL, num_downbeats |-> 0,
     beat_spectral_diff |-> NULL, bsd_length |-> 0,
     segments |-> NULL, num_segments |-> 0, num_segment_types |-> 0,
     cue_points |-> NULL, num_cue_points |-> 0]

\* The message is copied by strdup_safe; the copy of these short literals
\* is taken to succeed.
strdup_safe(s) == Ptr(s)

\* malloc at an allocation site of analyzer_finalize: NULL when the
\* environment makes that site fail, else the buffer with its contents
malloc(site, contents, env) == IF site \in env.fail THEN NULL ELSE Ptr(contents)

\* the trailing run of non-positive values is kept
NonZeroCountKeepsTail(detectionResults) == Len(detectionResults)

\* analyzer.cpp:402-405
RECURSIVE NonZeroCount(_)
NonZeroCount(detectionResults) ==
    IF detectionResults # <<>> /\ detectionResults[Len(detectionResults)] <= 0
    THEN NonZeroCount(SubSeq(detectionResults, 1, Len(detectionResults) - 1))
    ELSE Len(detectionResults)

\* only the first value is dropped
TrimmedDFDropsOne(detectionResults) ==
    SubSeq(detectionResults, 2, NonZeroCount(detectionResults))

\* analyzer.cpp:412-416: the sequence handed to the tempo tracker
TrimmedDF(detectionResults) ==
    SubSeq(detectionResults, 3, NonZeroCount(detectionResults))

\* the 2 values skipped at the start are not added back
BeatTimeWithoutSkipped(beat, stepSizeFrames) == 2 * beat * stepSizeFrames + stepSizeFrames

\* analyzer.cpp:463-465: a beat position in DF units as a time, in half
\* frames: 2 * ((beat + 2) * stepSizeFrames + stepSizeFrames / 2.0)
BeatTime(beat, stepSizeFrames) == 2 * (beat + 2) * stepSizeFrames + stepSizeFrames

\* analyzer.cpp:469-476: 60 / (sum of the gaps / (n - 1)), the gaps in
\* seconds (half frames / (2 * sampleRate)); a denominator of 0 is the
\* double +infinity
Bpm(times, sampleRate) ==
    LET n == Len(times)
        totalInterval == SeqSum([i \in 1..(n - 1) |-> times[i + 1] - times[i]])
    IN  IF n >= 2 THEN Rat(60 * (n - 1) * 2 * sampleRate, totalInterval)
        ELSE Rat(0, 1)

\* three windows are taken to be enough
NotEnoughAudioBelowThree(detectionResults) == Len(detectionResults) < 3

\* analyzer.cpp:386
NotEnoughAudio(detectionResults) == Len(detectionResults) < 4

\* the count of the beats is left as it was set
BeatsAllocFailedKeepsCount(r) ==
    [r EXCEPT !.error = strdup_safe("Memory allocation failed")]

\* analyzer.cpp:454-458: the beats buffer could not be allocated
BeatsAllocFailed(r) ==
    [r EXCEPT !.error = strdup_safe("Memory allocation failed"),
              !.num_beats = 0]

\* analyzer.cpp:380-476.  The tempo stage: r is the result so far, done
\* whether finalize returns it as it is, beats the tracker's beat vector.
TempoStage(an, env) ==
    LET r0 == [EmptyResultEx EXCEPT
                  !.step_size_frames = an.stepSizeFrames,
                  !.window_size = an.windowSize,
                  !.sample_rate = an.sampleRate,
                  !.total_frames = an.totalFramesProcessed,
                  !.duration = Rat(an.totalFramesProcessed, an.sampleRate)]
        r1 == [r0 EXCEPT
                  !.df_length = Len(an.detectionResults),
                  !.detection_function =
                      malloc("detection_function", an.detectionResults, env)]
        nonZeroCount == NonZeroCount(an.detectionResults)
        df == TrimmedDF(an.detectionResults)
        cfg == an.config
        inputTempo == IF RatPos(cfg.input_tempo) THEN cfg.input_tempo
                      ELSE kDefaultInputTempo
        constrainTempo == cfg.constrain_tempo # 0
        beatPeriod == [i \in 1..(Len(df) \div 128 + 1) |-> env.period]
        r2 == [r1 EXCEPT
                  !.bp_length = Len(beatPeriod),
                  !.beat_periods = malloc("beat_periods", beatPeriod, env)]
        alpha == IF RatPos(cfg.alpha) THEN cfg.alpha ELSE kDefaultAlpha
        tightness == IF RatPos(cfg.tightness) THEN cfg.tightness
                     ELSE kDefaultTightness
        tracker == <<Invoke("TempoTrackV2",
                            [sampleRate |-> an.sampleRate,
                             stepSizeFrames |-> an.stepSizeFrames]),
                     Invoke("calculateBeatPeriod",
                            [df |-> df, periods |-> Len(beatPeriod),
                             inputTempo |-> inputTempo,
                             constrainTempo |-> constrainTempo]),
                     Invoke("calculateBeats",
                            [df |-> df, alpha |-> alpha, tightness |-> tightness])>>
        beats == env.beats
        times == [i \in 1..Len(beats) |-> BeatTime(beats[i], an.stepSizeFrames)]
        buf == malloc("beats", times, env)
        r3 == [r2 EXCEPT !.num_beats = Len(beats), !.beats = buf]
    IN  IF NotEnoughAudio(an.detectionResults)
        THEN [r |-> [r0 EXCEPT !.error =
                        strdup_safe("Not enough audio data for beat detection")],
              done |-> TRUE, beats |-> <<>>, calls |-> <<>>]
        ELSE IF nonZeroCount <= 2
        THEN [r |-> [r1 EXCEPT !.error =
                        strdup_safe("No valid detection results")],
              done |-> TRUE, beats |-> <<>>, calls |-> <<>>]
        ELSE IF beats = <<>>
        THEN [r |-> [r2 EXCEPT !.error = strdup_safe("No beats detected")],
              done |-> TRUE, beats |-> beats, calls |-> tracker]
        ELSE IF buf = NULL
        THEN [r |-> BeatsAllocFailed(r3),
              done |-> TRUE, beats |-> beats, calls |-> tracker]
        ELSE [r |-> [r3 EXCEPT !.bpm = Bpm(times, an.sampleRate)],
              done |-> FALSE, beats |-> beats, calls |-> tracker]

\* analyzer.cpp:479-480
EffectiveBeatsPerBar(cfg) ==
    IF cfg.beats_per_bar > 0 THEN cfg.beats_per_bar ELSE kDefaultBeatsPerBar

\* analyzer.cpp:478-522.  The downbeat stage on the result r of a tempo
\* stage that went through.  With a step of 0 frames the block loop of
\* lines 491-493 never advances: hang.
DownbeatStage(an, r, beats, env) ==
    LET beatsPerBar == EffectiveBeatsPerBar(an.config)
        runs == Len(beats) >= 4 /\ an.audioBuffer # <<>>
        blockSize == an.stepSizeFrames
        setup == <<Invoke("DownBeat",
                          [sampleRate |-> an.sampleRate,
                           decimation |-> kDownbeatDecimationFactor,
                           increment |-> an.stepSizeFrames]),
                   Invoke("setBeatsPerBar", [beatsPerBar |-> beatsPerBar]),
                   Invoke("pushAudioBlock",
                          [blocks |-> IF blockSize > 0
                                      THEN Len(an.audioBuffer) \div blockSize
                                      ELSE 0]),
                   Invoke("getBufferedAudio", [length |-> env.decimatedLength])>>
        r1 == [r EXCEPT
                  !.num_downbeats = Len(env.downbeatIndices),
                  !.downbeats = malloc("downbeats", env.downbeatIndices, env),
                  !.bsd_length = Len(env.beatSD),
                  !.beat_spectral_diff = malloc("beat_spectral_diff", env.beatSD, env)]
    IN  IF ~runs THEN [r |-> r, hang |-> FALSE, calls |-> <<>>]
        ELSE IF blockSize = 0 THEN [r |-> r, hang |-> TRUE, calls |-> <<>>]
        ELSE IF env.decimatedLength > 0
        THEN [r |-> r1, hang |-> FALSE,
              calls |-> setup \o <<Invoke("findDownBeats", [beats |-> beats]),
                                   Invoke("getBeatSD", [n |-> Len(env.beatSD)])>>]
        ELSE [r |-> r, hang |-> FALSE, calls |-> setup]

\* the segmenter runs whether or not a configuration is supplied
SegmentationRunsAlways(an, seg_config) == an.audioBuffer # <<>>

\* analyzer.cpp:525
SegmentationRuns(an, seg_config) == seg_config # NULL /\ an.audioBuffer # <<>>

\* analyzer.cpp:524-572.  A segment of the segmenter is [start, end, type]
\* with start and end in samples; the result holds them as times.
SegmentationStage(an, r, seg_config, env) ==
    LET segCfg == getEffectiveSegConfig(seg_config)
        params ==
            [featureType |-> IF segCfg.feature_type > 0 THEN segCfg.feature_type
                             ELSE kDefaultSegFeatureType,
             hopSize |-> IF RatPos(segCfg.hop_size) THEN segCfg.hop_size
                         ELSE kDefaultSegHopSize,
             windowSize |-> IF RatPos(segCfg.window_size) THEN segCfg.window_size
                            ELSE kDefaultSegWindowSize,
             nHMMStates |-> IF segCfg.num_hmm_states > 0 THEN segCfg.num_hmm_states
                            ELSE kDefaultSegNumHMMStates,
             nclusters |-> IF segCfg.num_clusters > 0 THEN segCfg.num_clusters
                           ELSE kDefaultSegNumClusters]
        segs == env.segments
        converted == [i \in 1..Len(segs) |->
                        [start |-> 2 * segs[i].start,
                         end |-> 2 * segs[i].end,
                         type |-> segs[i].type]]
    IN  IF SegmentationRuns(an, seg_config)
        THEN [r |-> [r EXCEPT
                        !.num_segments = Len(segs),
                        !.num_segment_types = env.nsegtypes,
                        !.segments = malloc("segments", converted, env)],
              calls |-> <<Invoke("ClusterMeltSegmenter", params),
                          Invoke("initialise", [sampleRate |-> an.sampleRate]),
                          Invoke("segment", [nclusters |-> segCfg.num_clusters])>>]
        ELSE [r |-> r, calls |-> <<>>]

\* analyzer.cpp:577-591: the downbeats at positions 0, 8, 16, ...
RECURSIVE PhraseCues(_, _)
PhraseCues(r, i) ==
    IF i >= r.num_downbeats THEN <<>>
    ELSE LET beatIdx == Deref(r.downbeats)[i + 1]
             cue == [time |-> Deref(r.beats)[beatIdx + 1],
                     type |-> CUE_TYPE_PHRASE,
                     type_index |-> i \div 8,
                     confidence |-> Rat(8, 10)]
         IN  (IF beatIdx >= 0 /\ beatIdx < r.num_beats THEN <<cue>> ELSE <<>>)
             \o PhraseCues(r, i + 8)

\* analyzer.cpp:593-603
SectionCues(r) ==
    [i \in 1..r.num_segments |->
        [time |-> Deref(r.segments)[i].start,
         type |-> CUE_TYPE_SECTION,
         type_index |-> Deref(r.segments)[i].type,
         confidence |-> Rat(7, 10)]]

\* analyzer.cpp:575-603: the cue vector before it is sorted
CueList(r) ==
    (IF r.num_downbeats > 0 /\ r.downbeats # NULL THEN PhraseCues(r, 0) ELSE <<>>)
    \o (IF r.num_segments > 0 /\ r.segments # NULL THEN SectionCues(r) ELSE <<>>)

\* the cue vector is stored as it was generated
SortOutputsUnsorted(cues) == {cues}

\* analyzer.cpp:606-607: std::sort by time.  It orders by a.time < b.time
\* and promises nothing about cues of equal time: its outputs are the
\* rearrangements of the input that ascend in time.
SortOutputs(cues) ==
    LET n == Len(cues)
        perms == {f \in [1..n -> 1..n] : \A i, j \in 1..n : i # j => f[i] # f[j]}
    IN  {[i \in 1..n |-> cues[f[i]]] : f \in
            {g \in perms : \A i \in 1..(n - 1) : cues[g[i]].time <= cues[g[i + 1]].time}}

\* the segmenter is run before the downbeat detector
PipelineEndSegmenterFirst(t, d, sg) ==
    [r |-> sg.r, calls |-> t.calls \o sg.calls \o d.calls,
     stop |-> "none", cues |-> CueList(sg.r)]

\* analyzer.cpp:524-603, after a downbeat stage d that returned
PipelineEnd(t, d, sg) ==
    [r |-> sg.r, calls |-> t.calls \o d.calls \o sg.calls,
     stop |-> "none", cues |-> CueList(sg.r)]

\* analyzer.cpp:478-603, after a tempo stage t that went through
PipelineAfterTempo(an, seg_config, env, t, d) ==
    IF d.hang
    THEN [r |-> t.r, calls |-> t.calls, stop |-> "hang", cues |-> <<>>]
    ELSE PipelineEnd(t, d, SegmentationStage(an, d.r, seg_config, env))

\* an error of the tempo stage that found no beat does not end the pipeline
PipelineFromPastNoBeats(an, seg_config, env, t) ==
    IF t.done /\ t.beats # <<>>
    THEN [r |-> t.r, calls |-> t.calls, stop |-> "error", cues |-> <<>>]
    ELSE PipelineAfterTempo(an, seg_config, env, t,
                            DownbeatStage(an, t.r, t.beats, env))

\* analyzer.cpp:446-603, given the outcome t of the tempo stage
PipelineFrom(an, seg_config, env, t) ==
    IF t.done
    THEN [r |-> t.r, calls |-> t.calls, stop |-> "error", cues |-> <<>>]
    ELSE PipelineAfterTempo(an, seg_config, env, t,
                            DownbeatStage(an, t.r, t.beats, env))

\* The pipeline of analyzer_finalize up to the cue vector (analyzer.cpp:
\* 386-603): the stages' results, or stop where finalize returns early.
Pipeline(an, seg_config, env) ==
    PipelineFrom(an, seg_config, env, TempoStage(an, env))

\* finalize deletes the session it is given
FinalizeDeletesSession(analyzerArg) == analyzerArg # NULL

\* analyzer.cpp:370-618: whether analyzer_finalize deletes the session.  It
\* holds no delete; analyzer_destroy (line 621) is the only one.
FinalizeDeletes(analyzerArg) == FALSE

\* finalize hands the detection results over and leaves the session without
\* them
SessionEmptiedByFinalize(analyzerArg) ==
    IF analyzerArg = NULL THEN NULL
    ELSE Ptr([Deref(analyzerArg) EXCEPT !.detectionResults = <<>>])

\* analyzer.cpp:370-618: the session after analyzer_finalize.  The function
\* reads the session through analyzer-> and assigns to none of its members.
SessionAfterFinalize(analyzerArg) == analyzerArg

\* analyzer.cpp:605-617: what analyzer_finalize returns given the outcome
\* p of its pipeline
FinalizeReturn(p, env, sorted) ==
    IF p.stop = "error"
    THEN [ret |-> Ptr(p.r), calls |-> p.calls, hang |-> FALSE]
    ELSE IF p.stop = "hang"
    THEN [ret |-> NULL, calls |-> p.calls, hang |-> TRUE]
    ELSE [ret |-> Ptr([p.r EXCEPT
                         !.num_cue_points = Len(sorted),
                         !.cue_points = malloc("cue_points", sorted, env)]),
          calls |-> p.calls \o <<Invoke("sort", [cues |-> p.cues])>>,
          hang |-> FALSE]

\* analyzer_finalize.  sorted is what std::sort made of the cue vector.
\* ret is the pointer returned; hang, that the call does not return.
analyzer_finalize(analyzerArg, seg_config, env, sorted) ==
    IF analyzerArg = NULL \/ "result" \in env.fail
    THEN [ret |-> NULL, calls |-> <<>>, hang |-> FALSE]
    ELSE FinalizeReturn(Pipeline(Deref(analyzerArg), seg_config, env), env, sorted)

----------------------------------------------------------------------------
(* The environment of analyzer_finalize *)

AllocSites ==
    {"result", "detection_function", "beat_periods", "beats", "downbeats",
     "beat_spectral_diff", "segments", "cue_points"}

\* what calculateBeats returns for n detection-function values: no beat,
\* the first position, the first and the last, or every position
BeatOutputs(n) ==
    {<<>>, <<0>>, [i \in 1..n |-> i - 1]}
    \cup (IF n >= 3 THEN {<<0, n - 1>>} ELSE {})

\* the indices of every beatsPerBar-th of n beats, from the beat first on
EveryBar(first, n, beatsPerBar) ==
    [k \in 1..((n - first + beatsPerBar - 1) \div beatsPerBar) |->
        first + (k - 1) * beatsPerBar]

\* what the downbeat detector returns for the beats: no decimated audio, or
\* some, with the bars starting at the first beat or (in bars of more than
\* one beat) at the second; the downbeats are indices into the beats, one
\* per bar.  And one spectral difference per beat.
DownbeatOutputs(beats, beatsPerBar) ==
    {[decimatedLength |-> 0, downbeatIndices |-> <<>>, beatSD |-> <<>>]}
    \cup {[decimatedLength |-> 1,
           downbeatIndices |-> EveryBar(first, Len(beats), beatsPerBar),
           beatSD |-> [i \in 1..Len(beats) |-> 1]] :
            first \in 0..(IF beatsPerBar > 1 THEN 1 ELSE 0)}

\* what the segmenter returns for the audio: two segments, the boundary
\* after the first sample or before the last
SegmentOutputs(audio) ==
    {[segments |-> <<[start |-> 0, end |-> 1, type |-> 1],
                     [start |-> 1, end |-> Len(audio), type |-> 0]>>,
      nsegtypes |-> 2],
     [segments |-> <<[start |-> 0, end |-> Len(audio) - 1, type |-> 0],
                     [start |-> Len(audio) - 1, end |-> Len(audio), type |-> 1]>>,
      nsegtypes |-> 2]}

\* the segmenter configurations the callers pass: none, or one with every
\* field zero
SegConfigArgs ==
    {NULL,
     Ptr([feature_type |-> 0, hop_size |-> Rat(0, 1), window_size |-> Rat(0, 1),
          num_clusters |-> 0, num_hmm_states |-> 0])}

NoDownbeat == [decimatedLength |-> 0, downbeatIndices |-> <<>>, beatSD |-> <<>>]
NoSegments == [segments |-> <<>>, nsegtypes |-> 0]

Env(f, b, d, sg) ==
    [fail |-> f, period |-> 1, beats |-> b,
     decimatedLength |-> d.decimatedLength,
     downbeatIndices |-> d.downbeatIndices,
     beatSD |-> d.beatSD,
     segments |-> sg.segments,
     nsegtypes |-> sg.nsegtypes]

\* The environments of one finalize call.  Either no allocation fails and
\* the primitives the call reaches return any of their outputs, or the
\* result object cannot be allocated, or (in a call with a segmenter
\* configuration) one buffer cannot while every primitive returns its
\* fullest output.
FinalizeEnvs(an, seg_config) ==
    LET reached == Len(an.detectionResults) >= 4
                   /\ NonZeroCount(an.detectionResults) > 2
        n == Len(TrimmedDF(an.detectionResults))
        B == IF reached THEN BeatOutputs(n) ELSE {<<>>}
        D(b) == IF Len(b) >= 4 /\ an.audioBuffer # <<>> /\ an.stepSizeFrames > 0
                THEN DownbeatOutputs(b, EffectiveBeatsPerBar(an.config))
                ELSE {NoDownbeat}
        S(b) == IF b # <<>> /\ SegmentationRuns(an, seg_config)
                THEN SegmentOutputs(an.audioBuffer) ELSE {NoSegments}
        full == [i \in 1..n |-> i - 1]
        fullD == IF D(full) = {NoDownbeat} THEN NoDownbeat
                 ELSE [decimatedLength |-> 1,
                       downbeatIndices |->
                           EveryBar(0, n, EffectiveBeatsPerBar(an.config)),
                       beatSD |-> [i \in 1..n |-> 1]]
    IN  UNION {UNION {{Env({}, b, d, sg) : sg \in S(b)} : d \in D(b)} : b \in B}
        \cup {Env({"result"}, <<>>, NoDownbeat, NoSegments)}
        \cup (IF reached /\ seg_config # NULL
              THEN {Env({site}, full, fullD, sg) :
                        site \in AllocSites \ {"result"}, sg \in S(full)}
              ELSE {})

\* The environment of a finalize call that reaches no primitive
NoEnv == Env({}, <<>>, NoDownbeat, NoSegments)

\* the environments of a finalize call on the pointer an
FinalizeEnvsOf(an, seg_config) ==
    IF an = NULL THEN {NoEnv} ELSE FinalizeEnvs(Deref(an), seg_config)

\* what std::sort can make of the cue vector of that call
SortedOutputs(an, seg_config, env) ==
    IF an = NULL \/ "result" \in env.fail THEN {<<>>}
    ELSE SortOutputs(Pipeline(Deref(an), seg_config, env).cues)

----------------------------------------------------------------------------
(* Whole-file entry points *)

\* frames of the audio files the callers of the model pass
MaxFileFrames == 6

\* analyzer.cpp:243 (and src/analyzer/lib/analyzer.cpp:95)
chunkSize == 4096

\* A file as libsndfile presents it: whether sf_open succeeds, the sample
\* rate, channels and frames of SF_INFO, and the interleaved samples.
AudioFile(sr, ch, n) ==
    [ok |-> TRUE, samplerate |-> sr, channels |-> ch, frames |-> n,
     data |-> StreamChunk(0, n, ch)]

NoFile == [ok |-> FALSE, samplerate |-> 0, channels |-> 0, frames |-> 0, data |-> <<>>]

\* no file, empty and short files of one, two and six channels at 100 Hz,
\* and a two-frame file at 50 Hz (step of 0 frames)
FileArgs ==
    {NoFile, AudioFile(50, 1, 2)}
    \cup {AudioFile(100, ch, n) : ch \in {1, 2, 6}, n \in {0, MaxFileFrames}}

\* frames of the long file: enough for more than 128 detection-function
\* values after the first 2, so that the tracker is given 2 beat periods
LongFileFrames == 131

\* a long mono file at 100 Hz, which the callers pass to the two
\* analyzer_analyze_file
LongFile == AudioFile(100, 1, LongFileFrames)

\* What the detection function returns for nw windows: any values for a
\* short run of windows; for a long one an onset in every window, in every
\* window but the last, or in every window but the fifth.
DFOutputs(nw) ==
    IF nw <= MaxFileFrames + 1 THEN [1..nw -> DFVals]
    ELSE {[i \in 1..nw |-> 1],
          [i \in 1..nw |-> IF i = nw THEN 0 ELSE 1],
          [i \in 1..nw |-> IF i = 5 THEN 0 ELSE 1]}

\* calloc(1, sizeof(AnalyzerResult))
EmptyResult ==
    [bpm |-> Rat(0, 1), beats |-> NULL, num_beats |-> 0,
     sample_rate |-> 0, total_frames |-> 0, duration |-> Rat(0, 1),
     error |-> NULL]

\* sf_readf_float: the frames one read returns at position pos
FramesRead(file, pos) ==
    IF file.frames - pos < chunkSize THEN file.frames - pos ELSE chunkSize

\* one analyzer_process call of the read loop on a chunk of n windows
ReadChunk(an, samples, framesRead, windows) ==
    ProcessBody(an, samples, framesRead, SubSeq(windows, 1, NumWindows(an, framesRead)))

\* the values the detection function is still to return after out
WindowsLeft(an, out, windows) ==
    SubSeq(windows,
           Len(out.an.detectionResults) - Len(an.detectionResults) + 1,
           Len(windows))

\* analyzer.cpp:246-260: the read loop.  an is the session, windows the
\* values processTimeDomain is still to return; err is the first non-zero
\* return of analyzer_process (0 if none), oob whether a call stored past
\* the end of overlapBuffer.
RECURSIVE ReadLoop(_, _, _, _)
ReadNext(an, file, pos, windows, framesRead, out) ==
    [ReadLoop(out.an, file, pos + framesRead, WindowsLeft(an, out, windows))
        EXCEPT !.oob = @ \/ out.oob]

ReadChunks(an, file, pos, windows, framesRead, samples) ==
    IF framesRead <= 0 THEN [an |-> an, err |-> 0, oob |-> FALSE]
    ELSE IF ProcessRejects(Ptr(an), Ptr(samples), framesRead)
    THEN [an |-> an, err |-> -1, oob |-> FALSE]
    ELSE ReadNext(an, file, pos, windows, framesRead,
                  ReadChunk(an, samples, framesRead, windows))

ReadLoop(an, file, pos, windows) ==
    ReadChunks(an, file, pos, windows, FramesRead(file, pos),
               SubSeq(file.data, pos * file.channels + 1,
                      (pos + FramesRead(file, pos)) * file.channels))

\* analyzer.cpp:252-258: the outcome run of the read loop as a session
SessionAfter(run) ==
    IF run.err # 0
    THEN [an |-> NULL, error |-> "Error processing audio", oob |-> run.oob]
    ELSE [an |-> Ptr(run.an), error |-> "", oob |-> run.oob]

\* analyzer.cpp:229-260, given the pointer analyzer_create returned
SessionRead(file, created, w) ==
    IF created = NULL
    THEN [an |-> NULL, error |-> "Failed to create analyzer", oob |-> FALSE]
    ELSE SessionAfter(ReadLoop(Deref(created), file, 0, w.windows))

\* analyzer.cpp:212-260: the session the wrapper has built when it reaches
\* analyzer_finalize (NULL if it returns before), with the error message of
\* an early return
FileSession(file, config, w) ==
    IF ~file.ok
    THEN [an |-> NULL, error |-> "sf_strerror", oob |-> FALSE]
    ELSE SessionRead(file,
                     analyzer_create(file.samplerate, file.channels,
                                     Ptr(getEffectiveConfig(config)), w.create),
                     w)

\* The pointer members of a result in the order analyzer_free_result_ex
\* frees them (analyzer.cpp:290-297)
PtrFields ==
    <<"beats", "error", "detection_function", "beat_periods", "downbeats",
      "beat_spectral_diff", "segments", "cue_points">>

\* the arrays the result object called name points to, each named by the
\* object it was allocated for and the member that first held it
ArraysOf(name, r) ==
    {<<name, PtrFields[i]>> : i \in {j \in DOMAIN PtrFields :
                                        PtrFields[j] \in DOMAIN r /\ r[PtrFields[j]] # NULL}}

\* analyzer.cpp:288-299: the frees analyzer_free_result_ex makes on the
\* result object called name, in order (free(NULL) does nothing)
analyzer_free_result_ex(name, r) ==
    SelectSeq([i \in DOMAIN PtrFields |-> <<name, PtrFields[i]>>],
              LAMBDA a : r[a[2]] # NULL)
    \o <<<<name, "struct">>>>

\* The resources of one whole-file call: sf_open successes and sf_close
\* calls, sessions created and analyzer_destroy calls, the result objects
\* and the arrays allocated, the frees made, the object returned and the
\* arrays it points to.  ex is the extended result a conversion started
\* from.
Ledger(opens, closes, creates, destroys, objects, arrays, freed, returned, held) ==
    [opens |-> opens, closes |-> closes, creates |-> creates,
     destroys |-> destroys, objects |-> objects, arrays |-> arrays,
     freed |-> freed, returned |-> returned, held |-> held, ex |-> NULL]

\* a return of the wrapper's own result object r (analyzer.cpp:226, 234,
\* 257, 269) after that many sf_close and analyzer_destroy calls
ReturnOwn(r, opens, closes, creates, destroys, calls, windows, hang, oob) ==
    [ret |-> Ptr(r), calls |-> calls, windows |-> windows, hang |-> hang,
     oob |-> oob,
     ledger |-> Ledger(opens, closes, creates, destroys, {"result"},
                       ArraysOf("result", r), <<>>, "result",
                       ArraysOf("result", r))]

\* analyzer.cpp:272-278: the return of the object analyzer_finalize gave,
\* r, after free(result)
ReturnFinal(r, calls, windows, oob) ==
    [ret |-> Ptr(r), calls |-> calls, windows |-> windows, hang |-> FALSE,
     oob |-> oob,
     ledger |-> Ledger(1, 1, 1, 1, {"result", "finalResult"},
                       ArraysOf("finalResult", r), <<<<"result", "struct">>>>,
                       "finalResult", ArraysOf("finalResult", r))]

\* analyzer.cpp:216-278: what the wrapper returns, given the session s it
\* built and the outcome fin of analyzer_finalize on it
FileExReturn(file, w, s, fin) ==
    LET info == [EmptyResultEx EXCEPT
                    !.sample_rate = file.samplerate,
                    !.total_frames = file.frames,
                    !.duration = Rat(file.frames, file.samplerate)]
    IN  IF ~w.calloc
        THEN [ret |-> NULL, calls |-> <<>>, windows |-> 0, hang |-> FALSE,
              oob |-> FALSE,
              ledger |-> Ledger(0, 0, 0, 0, {}, {}, <<>>, "none", {})]
        ELSE IF ~file.ok
        THEN ReturnOwn([EmptyResultEx EXCEPT !.error = strdup_safe(s.error)],
                       0, 0, 0, 0, <<>>, 0, FALSE, FALSE)
        ELSE IF s.an = NULL /\ s.error = "Failed to create analyzer"
        THEN ReturnOwn([EmptyResultEx EXCEPT !.error = strdup_safe(s.error)],
                       1, 1, 0, 0, <<>>, 0, FALSE, FALSE)
        ELSE IF s.an = NULL
        THEN ReturnOwn([info EXCEPT !.error = strdup_safe(s.error)],
                       1, 1, 1, 1, <<>>, 0, FALSE, s.oob)
        ELSE IF fin.ret = NULL
        THEN ReturnOwn([info EXCEPT !.error =
                           strdup_safe("Failed to finalize analysis")],
                       1, 1, 1, IF fin.hang THEN 0 ELSE 1, fin.calls,
                       Len(Deref(s.an).detectionResults), fin.hang, s.oob)
        ELSE ReturnFinal([Deref(fin.ret) EXCEPT
                             !.sample_rate = info.sample_rate,
                             !.total_frames = info.total_frames,
                             !.duration = info.duration],
                         fin.calls, Len(Deref(s.an).detectionResults), s.oob)

\* analyzer.cpp:262-265: analyzer_finalize on the session s
FileExFinalized(file, seg_config, w, s) ==
    FileExReturn(file, w, s, analyzer_finalize(s.an, seg_config, w.env, w.sorted))

\* analyzer_analyze_file_ex.  w is the environment of the call: calloc and
\* create, whether the two allocations succeed; windows, the detection
\* function's values; env and sorted, as for analyzer_finalize.  ret is the
\* pointer returned, windows the number of processTimeDomain calls.
analyzer_analyze_file_ex(file, config, seg_config, w) ==
    FileExFinalized(file, seg_config, w, FileSession(file, config, w))

\* the beats stay in the extended result as well
TransferKeepsBeats(exResult) == [exResult EXCEPT !.error = NULL]

\* analyzer.cpp:196-201: the extended result after its error string and
\* its beats were handed to the basic result
TransferToBasic(exResult) == [exResult EXCEPT !.error = NULL, !.beats = NULL]

\* analyzer.cpp:185-206: the conversion of the extended result exResult,
\* the object called name, into a basic one
ConvertedToBasic(ex, name, exResult) ==
    [ex EXCEPT
        !.ret = Ptr([bpm |-> exResult.bpm,
                     beats |-> exResult.beats,
                     num_beats |-> exResult.num_beats,
                     sample_rate |-> exResult.sample_rate,
                     total_frames |-> exResult.total_frames,
                     duration |-> exResult.duration,
                     error |-> exResult.error]),
        !.ledger = [@ EXCEPT
                       !.objects = @ \cup {"basic"},
                       !.freed = @ \o analyzer_free_result_ex(
                                          name, TransferToBasic(exResult)),
                       !.returned = "basic",
                       !.held = {<<name, "beats">>, <<name, "error">>}
                                \cap ArraysOf(name, exResult),
                       !.ex = Ptr(exResult)]]

\* analyzer.cpp:186-189: the basic result could not be allocated
ConversionFailed(ex, name, exResult) ==
    [ex EXCEPT
        !.ret = NULL,
        !.ledger = [@ EXCEPT
                       !.freed = @ \o analyzer_free_result_ex(name, exResult),
                       !.returned = "none",
                       !.held = {}]]

\* analyzer.cpp:180-206: the basic result made of the outcome ex of
\* analyzer_analyze_file_ex
BasicOf(ex, w) ==
    IF ex.ret = NULL THEN [ex EXCEPT !.ret = NULL]
    ELSE IF ~w.calloc2 THEN ConversionFailed(ex, ex.ledger.returned, Deref(ex.ret))
    ELSE ConvertedToBasic(ex, ex.ledger.returned, Deref(ex.ret))

\* analyzer_analyze_file_config.  w.calloc2 is whether the calloc of the
\* basic result succeeds.
analyzer_analyze_file_config(file, config, w) ==
    BasicOf(analyzer_analyze_file_ex(file, config, NULL, w), w)

\* analyzer_analyze_file of src/pkg/analysis/lib
analyzer_analyze_file(file, w) == analyzer_analyze_file_config(file, NULL, w)

\* src/analyzer/lib/analyzer.cpp:21-22
kStepSecs == Rat(1161, 100000)
kMaximumBinSizeHz == 50

\* src/analyzer/lib/analyzer.cpp:112-123: one chunk as mono doubles; of
\* more than two channels the first two are averaged
MonoOfChunk(readBuffer, channels, framesRead) ==
    IF channels = 1 THEN convertToDouble(readBuffer, framesRead)
    ELSE IF channels = 2 THEN downmixToMono(readBuffer, framesRead)
    ELSE [i \in 1..framesRead |->
            (readBuffer[(i - 1) * channels + 1]
             + readBuffer[(i - 1) * channels + 2]) \div 2]

\* src/analyzer/lib/analyzer.cpp:106-150: the read loop.  a holds the local
\* variables of the function; the per-frame loop of lines 126-149 is the
\* one of analyzer_process.
RECURSIVE LibReadLoop(_, _, _)
LibReadLoop(a, file, pos) ==
    LET framesRead == FramesRead(file, pos)
        readBuffer == SubSeq(file.data, pos * file.channels + 1,
                             (pos + framesRead) * file.channels)
        monoBuffer == MonoOfChunk(readBuffer, file.channels, framesRead)
    IN  IF framesRead <= 0 THEN a
        ELSE LibReadLoop(ProcessLoop(a, monoBuffer), file, pos + framesRead)

\* src/analyzer/lib/analyzer.cpp:86-104: the local variables of
\* analyzer_analyze_file before its read loop; windows are the values
\* processTimeDomain will return
LibLocals(file, windows) ==
    LET windowSize == WindowSize(file.samplerate, kMaximumBinSizeHz)
    IN  [stepSizeFrames |-> StepSizeFrames(file.samplerate, kStepSecs),
         windowSize |-> windowSize,
         emitted |-> <<>>,
         detectionResults |-> <<>>,
         overlapBuffer |-> [i \in 1..windowSize |-> 0],
         overlapPos |-> 0,
         totalFramesProcessed |-> 0,
         oracle |-> windows,
         oob |-> FALSE]

\* src/analyzer/lib/analyzer.cpp:152-219, given the locals a after the read
\* loop
LibReturn(file, w, a) ==
    LET info == [EmptyResult EXCEPT
                    !.sample_rate = file.samplerate,
                    !.total_frames = file.frames,
                    !.duration = Rat(file.frames, file.samplerate)]
        df == TrimmedDF(a.detectionResults)
        tracker == <<Invoke("TempoTrackV2",
                            [sampleRate |-> file.samplerate,
                             stepSizeFrames |-> a.stepSizeFrames]),
                     Invoke("calculateBeatPeriod",
                            [df |-> df, periods |-> Len(df) \div 128 + 1]),
                     Invoke("calculateBeats", [df |-> df])>>
        times == [i \in 1..Len(w.env.beats) |->
                    BeatTime(w.env.beats[i], a.stepSizeFrames)]
        Out(r, calls) == [ret |-> Ptr(r), calls |-> calls,
                          windows |-> Len(a.detectionResults),
                          hang |-> FALSE, oob |-> a.oob]
    IN  IF Len(a.detectionResults) < 4
        THEN Out([info EXCEPT !.error =
                    strdup_safe("Not enough audio data for beat detection")], <<>>)
        ELSE IF NonZeroCount(a.detectionResults) <= 2
        THEN Out([info EXCEPT !.error = strdup_safe("No valid detection results")],
                 <<>>)
        ELSE IF w.env.beats = <<>>
        THEN Out([info EXCEPT !.error = strdup_safe("No beats detected")], tracker)
        ELSE IF malloc("beats", times, w.env) = NULL
        THEN Out([info EXCEPT !.error = strdup_safe("Memory allocation failed"),
                              !.num_beats = 0], tracker)
        ELSE Out([info EXCEPT !.num_beats = Len(w.env.beats),
                              !.beats = malloc("beats", times, w.env),
                              !.bpm = Bpm(times, file.samplerate)], tracker)

\* analyzer_analyze_file of src/analyzer/lib.  w is the environment of the
\* call: calloc, whether the result is allocated; windows, the detection
\* function's values; env, the tracker's beats and the failing allocations.
analyzer_lib_analyze_file(file, w) ==
    IF ~w.calloc
    THEN [ret |-> NULL, calls |-> <<>>, windows |-> 0, hang |-> FALSE, oob |-> FALSE]
    ELSE IF ~file.ok
    THEN [ret |-> Ptr([EmptyResult EXCEPT !.error = strdup_safe("sf_strerror")]),
          calls |-> <<>>, windows |-> 0, hang |-> FALSE, oob |-> FALSE]
    ELSE LibReturn(file, w, LibReadLoop(LibLocals(file, w.windows), file, 0))

\* the number of detection-function values of the session s
WindowsOf(s) ==
    IF s.an = NULL THEN 0 ELSE Len(Deref(s.an).detectionResults)

\* the number of windows the file yields under the configuration
FileWindows(file, config) ==
    WindowsOf(FileSession(file, config,
                          [create |-> TRUE, windows |-> [i \in 1..file.frames |-> 0]]))

\* the environments in which the wrapper reaches analyzer_finalize with
\* the session an, the detection function having returned win
FileEnvsFor(an, seg_config, win) ==
    UNION {{[calloc |-> TRUE, calloc2 |-> TRUE, create |-> TRUE, windows |-> win,
             env |-> env, sorted |-> sorted] :
                sorted \in SortedOutputs(an, seg_config, env)} :
             env \in FinalizeEnvsOf(an, seg_config)}

\* The environments of one analyzer_analyze_file_ex call: an allocation of
\* the wrapper fails, or none does and the detection function returns any
\* values and analyzer_finalize meets any of its environments.
FileEnvs(file, config, seg_config) ==
    {[calloc |-> c, calloc2 |-> TRUE, create |-> ~c, windows |-> <<>>,
      env |-> NoEnv, sorted |-> <<>>] : c \in BOOLEAN}
    \cup UNION {FileEnvsFor(FileSession(file, config,
                                        [create |-> TRUE, windows |-> win]).an,
                            seg_config, win) :
                  win \in DFOutputs(FileWindows(file, config))}

\* the same for the wrappers that return the basic result, whose calloc
\* can fail as well
FileEnvsBasic(file, config) ==
    FileEnvs(file, config, NULL)
    \cup {[calloc |-> TRUE, calloc2 |-> FALSE, create |-> TRUE,
           windows |-> [i \in 1..FileWindows(file, config) |-> 0],
           env |-> NoEnv, sorted |-> <<>>]}

\* The environments of one call of analyzer_analyze_file of src/analyzer/lib
LibFileEnvs(file) ==
    LET nw == IF file.ok
              THEN Len(LibReadLoop(LibLocals(file, [i \in 1..file.frames |-> 0]),
                                   file, 0).detectionResults)
              ELSE 0
        n(win) == Len(TrimmedDF(win))
        B(win) == IF Len(win) >= 4 /\ NonZeroCount(win) > 2
                  THEN {Env({}, b, NoDownbeat, NoSegments) : b \in BeatOutputs(n(win))}
                       \cup {Env({"beats"}, [i \in 1..n(win) |-> i - 1],
                                 NoDownbeat, NoSegments)}
                  ELSE {NoEnv}
    IN  {[calloc |-> FALSE, windows |-> <<>>, env |-> NoEnv]}
        \cup UNION {{[calloc |-> TRUE, windows |-> win, env |-> env] : env \in B(win)} :
                      win \in DFOutputs(nw)}

----------------------------------------------------------------------------
(* Calls.  The caller of the model holds one session and one result at a
   time: it creates a session only when it holds none, and it releases the
   result it holds before its next call. *)

Call(op, ret) ==
    [op |-> op, ret |-> ret, returned |-> TRUE, args |-> <<>>, calls |-> <<>>,
     windows |-> 0, afterFinalize |-> FALSE, twin |-> NULL, ledger |-> NULL]

Init ==
    /\ handle = "null"
    /\ analyzer = NULL
    /\ last = Call("none", 0)
    /\ result = NULL
    /\ crashed = FALSE

\* analyzer_create, called while the caller holds no session
Create ==
    /\ ~crashed
    /\ result = NULL
    /\ handle # "live"
    /\ \E sr \in SampleRateArgs, ch \in ChannelArgs, cfg \in ConfigArgs,
          allocOk \in BOOLEAN :
        LET p == analyzer_create(sr, ch, cfg, allocOk)
        IN  /\ analyzer' = p
            /\ handle' = IF p = NULL THEN "null" ELSE "live"
            /\ last' = [Call("create", 0) EXCEPT
                            !.args = [sample_rate |-> sr, channels |-> ch,
                                      allocOk |-> allocOk]]
    /\ UNCHANGED result
    /\ UNCHANGED crashed

\* analyzer_process with arguments its check rejects: a null session, a
\* null sample pointer or no frames
ProcessRejected ==
    /\ ~crashed
    /\ result = NULL
    /\ handle # "freed"
    /\ \E a \in {NULL, analyzer}, samples \in {NULL, Ptr(<<2, 2>>)},
          num_frames \in 0..1 :
        /\ ProcessRejects(a, samples, num_frames)
        /\ last' = Call("process_rejected", -1)
    /\ UNCHANGED result
    /\ UNCHANGED <<handle, analyzer, crashed>>

\* analyzer_process on the live session with a non-empty chunk.  A store
\* past the end of overlapBuffer either goes unnoticed or aborts the
\* process.
Process ==
    /\ ~crashed
    /\ result = NULL
    /\ handle = "live"
    /\ \E num_frames \in 1..MaxChunk :
        LET an == Deref(analyzer)
            n == NumWindows(an, num_frames)
        IN  /\ an.totalFramesProcessed + num_frames <= MaxFrames
            /\ Len(an.detectionResults) + n <= MaxDF
            /\ \E oracle \in [1..n -> DFVals] :
                LET samples == StreamChunk(an.totalFramesProcessed, num_frames,
                                           an.channels)
                    out == ProcessBody(an, samples, num_frames, oracle)
                IN  \E abort \in (IF out.oob THEN BOOLEAN ELSE {FALSE}) :
                      IF abort
                      THEN /\ crashed' = TRUE
                           /\ last' = [Call("process", 0) EXCEPT !.returned = FALSE]
                           /\ UNCHANGED analyzer
                      ELSE /\ ~ProcessRejects(analyzer, Ptr(samples), num_frames)
                           /\ analyzer' = Ptr(out.an)
                           /\ last' = [Call("process", 0) EXCEPT
                                          !.afterFinalize = (last.op = "free_result_ex"),
                                          !.args = [num_frames |-> num_frames],
                                          !.calls = DFCalls(an, out.an)]
                           /\ UNCHANGED crashed
    /\ UNCHANGED result
    /\ UNCHANGED handle

\* How a call of analyzer_finalize that came out as out ends.  twin is
\* what the same call returns on a second session that was created and fed
\* alike, the primitives and the allocator answering alike.
FinalizeEnds(seg_config, env, out, twin) ==
    /\ result' = out.ret
    /\ crashed' = out.hang
    /\ last' = [Call("finalize", 0) EXCEPT
                   !.returned = ~out.hang,
                   !.calls = out.calls,
                   !.twin = twin.ret,
                   !.args = [seg_config |-> seg_config, fail |-> env.fail,
                             env |-> env]]
    /\ handle' = IF FinalizeDeletes(analyzer) THEN "freed" ELSE handle
    /\ analyzer' = IF FinalizeDeletes(analyzer) THEN NULL
                   ELSE SessionAfterFinalize(analyzer)

\* analyzer_finalize on the caller's handle (null before a session exists)
Finalize ==
    /\ ~crashed
    /\ result = NULL
    /\ handle # "freed"
    /\ \E seg_config \in SegConfigArgs :
        \E env \in FinalizeEnvsOf(analyzer, seg_config) :
            \E sorted, sorted2 \in SortedOutputs(analyzer, seg_config, env) :
                FinalizeEnds(seg_config, env,
                             analyzer_finalize(analyzer, seg_config, env, sorted),
                             analyzer_finalize(analyzer, seg_config, env, sorted2))

\* analyzer_get_df_count on the caller's handle or on a null one
GetDfCount ==
    /\ ~crashed
    /\ result = NULL
    /\ handle # "freed"
    /\ \E a \in {NULL, analyzer} :
        last' = [Call("get_df_count", analyzer_get_df_count(a)) EXCEPT
                    !.args = [null |-> a = NULL]]
    /\ UNCHANGED result
    /\ UNCHANGED <<handle, analyzer, crashed>>

\* analyzer_destroy on the live session
Destroy ==
    /\ ~crashed
    /\ result = NULL
    /\ handle = "live"
    /\ handle' = "freed"
    /\ analyzer' = NULL
    /\ last' = Call("destroy", 0)
    /\ UNCHANGED result
    /\ UNCHANGED crashed

\* analyzer_free_result_ex on the result the caller holds
FreeResultEx ==
    /\ ~crashed
    /\ result # NULL
    /\ "df_length" \in DOMAIN Deref(result)
    /\ result' = NULL
    /\ last' = Call("free_result_ex", 0)
    /\ UNCHANGED <<handle, analyzer, crashed>>

\* How a whole-file call ends: it returns out.ret, or it never returns (an
\* out-of-bounds store that aborts the process, or the downbeat loop that
\* does not advance).
FileCallEnds(op, args, out) ==
    \E abort \in (IF out.oob THEN BOOLEAN ELSE {FALSE}) :
        /\ result' = IF abort \/ out.hang THEN NULL ELSE out.ret
        /\ crashed' = (abort \/ out.hang)
        /\ last' = [Call(op, 0) EXCEPT
                       !.returned = ~(abort \/ out.hang),
                       !.args = args,
                       !.calls = out.calls,
                       !.windows = out.windows,
                       !.ledger = IF "ledger" \in DOMAIN out THEN out.ledger
                                  ELSE NULL]
        /\ UNCHANGED <<handle, analyzer>>

\* The whole-file entry points read nothing of the streaming state.  The
\* caller makes its whole-file calls first, one after the other, before it
\* turns to the streaming API.
FileCallable ==
    /\ ~crashed
    /\ result = NULL
    /\ handle = "null"
    /\ last.op \in {"none", "free_result", "free_result_ex"}

AnalyzeFileEx ==
    /\ FileCallable
    /\ \E file \in FileArgs, config \in ConfigArgs, seg_config \in SegConfigArgs :
        \E w \in FileEnvs(file, config, seg_config) :
            FileCallEnds("analyze_file_ex",
                         [file |-> file, config |-> config,
                          seg_config |-> seg_config, w |-> w],
                         analyzer_analyze_file_ex(file, config, seg_config, w))

AnalyzeFileConfig ==
    /\ FileCallable
    /\ \E file \in FileArgs, config \in ConfigArgs :
        \E w \in FileEnvsBasic(file, config) :
            FileCallEnds("analyze_file_config",
                         [file |-> file, config |-> config,
                          seg_config |-> NULL, w |-> w],
                         analyzer_analyze_file_config(file, config, w))

AnalyzeFile ==
    /\ FileCallable
    /\ \E file \in FileArgs \cup {LongFile} :
        \E w \in FileEnvsBasic(file, NULL) :
            FileCallEnds("analyze_file",
                         [file |-> file, config |-> NULL,
                          seg_config |-> NULL, w |-> w],
                         analyzer_analyze_file(file, w))

LibAnalyzeFile ==
    /\ FileCallable
    /\ \E file \in FileArgs \cup {LongFile} :
        \E w \in LibFileEnvs(file) :
            FileCallEnds("lib_analyze_file",
                         [file |-> file, config |-> NULL,
                          seg_config |-> NULL, w |-> w],
                         analyzer_lib_analyze_file(file, w))

\* analyzer_free_result on the basic result the caller holds
FreeResult ==
    /\ ~crashed
    /\ result # NULL
    /\ "df_length" \notin DOMAIN Deref(result)
    /\ result' = NULL
    /\ last' = Call("free_result", 0)
    /\ UNCHANGED <<handle, analyzer, crashed>>

Next ==
    \/ Create
    \/ ProcessRejected
    \/ Process
    \/ Finalize
    \/ GetDfCount
    \/ Destroy
    \/ FreeResultEx
    \/ AnalyzeFileEx
    \/ AnalyzeFileConfig
    \/ AnalyzeFile
    \/ LibAnalyzeFile
    \/ FreeResult

Spec == Init /\ [][Next]_vars

----------------------------------------------------------------------------
(* Properties *)

\* what the properties read of the state
R == Deref(result)
IsEx(r) == "df_length" \in DOMAIN r
Session == Deref(analyzer)
FinalizeReturned == last.op = "finalize" /\ last.returned /\ result # NULL
PkgFileOps == {"analyze_file_ex", "analyze_file_config", "analyze_file"}
FileOps == PkgFileOps \cup {"lib_analyze_file"}
TrackerFns == {"TempoTrackV2", "calculateBeatPeriod", "calculateBeats"}
TrackerInvoked == \E i \in DOMAIN last.calls : last.calls[i].fn \in TrackerFns

\* C1: analyzer_create returns a null handle whenever sample_rate <= 0,
\* channels <= 0 or channels > 2; for every other sample rate, channel count
\* and configuration (or none) it returns a live session whose detection
\* results are empty, whose processed-frame counter is 0 and whose overlap
\* position is 0, unless the allocation fails.
C1_CreateContract ==
    last.op = "create" =>
        LET a == last.args
            invalid == a.sample_rate <= 0 \/ a.channels <= 0 \/ a.channels > 2
        IN  /\ invalid => handle = "null" /\ analyzer = NULL
            /\ (~invalid /\ a.allocOk) =>
                  /\ handle = "live"
                  /\ analyzer # NULL
                  /\ Session.detectionResults = <<>>
                  /\ Session.totalFramesProcessed = 0
                  /\ Session.overlapPos = 0

\* a stereo session has been created with a configuration of the caller
C1_Created ==
    /\ last.op = "create"
    /\ handle = "live"
    /\ Session.channels = 2
    /\ Session.config # analyzer_default_config

\* C2: analyzer_process with a null session, a null sample pointer or
\* num_frames = 0 returns non-zero and leaves the session as it was; every
\* other call returns 0.
C2_ProcessContract ==
    [][/\ last'.op = "process_rejected" => last'.ret # 0 /\ analyzer' = analyzer
       /\ last'.op = "process" => last'.returned /\ last'.ret = 0]_vars

C4_FinalizeConsumes ==
    (last.op = "finalize" /\ last.returned) => handle # "live"

\* C4, amended: analyzer_finalize leaves the handle and the session as
\* they are, and a live session is released by analyzer_destroy only.
C4_OnlyDestroyReleases ==
    [][/\ last'.op = "finalize" => handle' = handle /\ analyzer' = analyzer
       /\ (handle = "live" /\ handle' # "live") => last'.op = "destroy"]_vars

\* analyzer_process has returned 0 on a session that was finalized before
C4_ProcessAfterFinalize ==
    /\ last.op = "process"
    /\ last.afterFinalize
    /\ last.returned /\ last.ret = 0
    /\ handle = "live"

\* C5: whenever the result of analyzer_finalize holds at least one beat its
\* error is null; if the downbeat stage is skipped (fewer than 4 beats, or
\* no audio history) the downbeat and spectral-difference arrays are absent
\* with count 0; if no segmenter configuration is supplied the segment
\* array is absent with count 0 and no cue is a section cue.
C5_AbsenceIsNoError ==
    FinalizeReturned =>
        /\ R.num_beats >= 1 => R.error = NULL
        /\ (R.num_beats < 4 \/ Session.audioBuffer = <<>>) =>
              /\ R.downbeats = NULL /\ R.num_downbeats = 0
              /\ R.beat_spectral_diff = NULL /\ R.bsd_length = 0
        /\ last.args.seg_config = NULL =>
              /\ R.segments = NULL /\ R.num_segments = 0
              /\ R.cue_points # NULL =>
                    \A i \in DOMAIN Deref(R.cue_points) :
                        Deref(R.cue_points)[i].type # CUE_TYPE_SECTION

\* finalize without a segmenter configuration has returned fewer than 4
\* beats, no error, no downbeats, no segments and no cues
C5_BeatsOnly ==
    /\ FinalizeReturned
    /\ last.args.seg_config = NULL
    /\ R.num_beats \in 1..3
    /\ R.error = NULL
    /\ R.num_downbeats = 0 /\ R.num_segments = 0 /\ R.num_cue_points = 0

\* the detection-function values the last finalize or whole-file call saw
LastDF ==
    IF last.op = "finalize" THEN Session.detectionResults ELSE last.args.w.windows

\* the position of the last value > 0 of a sequence (0 if it has none)
LastPositive(dr) ==
    IF \E i \in DOMAIN dr : dr[i] > 0
    THEN CHOOSE i \in DOMAIN dr : dr[i] > 0 /\ \A j \in DOMAIN dr : j > i => dr[j] <= 0
    ELSE 0

\* what remains of a sequence without its first 2 values and without its
\* trailing run of values <= 0
Remaining(dr) == SubSeq(dr, 3, LastPositive(dr))

NotEnoughAudioError == Ptr("Not enough audio data for beat detection")
NoValidResultsError == Ptr("No valid detection results")
CreateFailedError == Ptr("Failed to create analyzer")

\* C6: if the session was fed fewer than 4 * windowSize frames,
\* analyzer_finalize returns the 'Not enough audio data for beat detection'
\* error with no beats, segments or cue points.
C6_ShorterThanFourWindowSizes ==
    (FinalizeReturned /\ Session.totalFramesProcessed < 4 * Session.windowSize) =>
        /\ R.error = NotEnoughAudioError
        /\ R.beats = NULL /\ R.num_beats = 0
        /\ R.segments = NULL /\ R.num_segments = 0
        /\ R.cue_points = NULL /\ R.num_cue_points = 0

\* C6, amended: a session with a step of h >= 1 frames (h at most the
\* window size, which is what a larger step advances by) that was fed n
\* frames has emitted 0 windows if n < windowSize and otherwise
\* (n - windowSize) div h + 1.  analyzer_finalize returns the 'Not enough
\* audio data for beat detection' error, with no beats, segments or cue
\* points, exactly when fewer than 4 windows were emitted: that is fewer
\* than windowSize + 3 * h frames, not 4 * windowSize.
C6_FewerThanFourWindows ==
    /\ (analyzer # NULL /\ Session.stepSizeFrames >= 1) =>
          LET W == Session.windowSize
              h == IF Session.stepSizeFrames < W THEN Session.stepSizeFrames ELSE W
              n == Session.totalFramesProcessed
          IN  /\ Len(Session.detectionResults) =
                    IF n < W THEN 0 ELSE (n - W) \div h + 1
              /\ Len(Session.detectionResults) < 4 <=> n < W + 3 * h
    /\ FinalizeReturned =>
          IF Len(Session.detectionResults) < 4
          THEN /\ R.error = NotEnoughAudioError
               /\ R.beats = NULL /\ R.num_beats = 0
               /\ R.segments = NULL /\ R.num_segments = 0
               /\ R.cue_points = NULL /\ R.num_cue_points = 0
          ELSE R.error # NotEnoughAudioError

\* finalize has returned the error for a session of overlapping windows
\* that has emitted three of them
C6_ThreeWindows ==
    /\ FinalizeReturned
    /\ Session.stepSizeFrames \in 1..(Session.windowSize - 1)
    /\ Len(Session.detectionResults) = 3
    /\ R.error = NotEnoughAudioError

\* C7: if at least 4 windows were analysed and every detection-function
\* value is <= 0, analyzer_finalize (and analyzer_analyze_file of
\* src/analyzer/lib) returns the error 'No valid detection results', bpm 0
\* and no beats, and the tempo tracker is not invoked.
C7_SilenceIsAnError ==
    (/\ last.op \in {"finalize", "lib_analyze_file"}
     /\ last.returned /\ result # NULL
     /\ Len(LastDF) >= 4
     /\ \A i \in DOMAIN LastDF : LastDF[i] <= 0) =>
        /\ R.error = NoValidResultsError
        /\ R.bpm = Rat(0, 1)
        /\ R.beats = NULL /\ R.num_beats = 0
        /\ ~TrackerInvoked

\* finalize has returned on a session of at least 4 windows, all silent
C7_SilentSession ==
    /\ FinalizeReturned
    /\ Len(Session.detectionResults) >= 4
    /\ \A i \in DOMAIN Session.detectionResults : Session.detectionResults[i] <= 0
    /\ R.error = NoValidResultsError

\* C8: if fewer than 3 detection-function values remain after the first 2
\* and the trailing run of values <= 0 are dropped, finalize fails without
\* invoking the tempo tracker; the tracker is invoked only with at least 3
\* remaining values.
C8_TrackerNeedsThree ==
    (FinalizeReturned /\ Len(Session.detectionResults) >= 4) =>
        /\ Len(Remaining(Session.detectionResults)) < 3 => R.error # NULL
        /\ TrackerInvoked => Len(Remaining(Session.detectionResults)) >= 3

\* C8, amended: with at least 4 detection-function values, finalize fails
\* with 'No valid detection results', the tracker not invoked, exactly when
\* no value remains after the first 2 and the trailing run of values <= 0
\* are dropped; with one remaining value or more the tracker is invoked,
\* on the remaining values.
C8_TrackerNeedsOne ==
    (FinalizeReturned /\ Len(Session.detectionResults) >= 4) =>
        LET df == Remaining(Session.detectionResults)
        IN  IF df = <<>>
            THEN R.error = NoValidResultsError /\ ~TrackerInvoked
            ELSE /\ R.error # NoValidResultsError
                 /\ TrackerInvoked
                 /\ \A i \in DOMAIN last.calls :
                        last.calls[i].fn \in {"calculateBeatPeriod", "calculateBeats"}
                            => last.calls[i].args.df = df

\* the tracker has found a beat in a single remaining value
C8_OneValueTracked ==
    /\ FinalizeReturned
    /\ Len(Session.detectionResults) >= 4
    /\ Len(Remaining(Session.detectionResults)) = 1
    /\ TrackerInvoked
    /\ R.error = NULL /\ R.num_beats = 1

\* C9: a failed buffer allocation in analyzer_finalize yields a result with
\* an error and the count of that buffer 0: in every result a count is > 0
\* only if its array is present.
C9_CountsNeedArrays ==
    FinalizeReturned =>
        /\ last.args.fail # {} => R.error # NULL
        /\ R.df_length > 0 => R.detection_function # NULL
        /\ R.bp_length > 0 => R.beat_periods # NULL
        /\ R.num_beats > 0 => R.beats # NULL
        /\ R.num_downbeats > 0 => R.downbeats # NULL
        /\ R.bsd_length > 0 => R.beat_spectral_diff # NULL
        /\ R.num_segments > 0 => R.segments # NULL
        /\ R.num_cue_points > 0 => R.cue_points # NULL

\* C10: an input of more than 2 channels is rejected: analyzer_create
\* returns null, and every whole-file entry point returns a result with the
\* error 'Failed to create analyzer' and no beats, no window having gone
\* through the detection function.
C10_ManyChannelsRejected ==
    /\ (last.op = "create" /\ last.args.channels > 2) => handle = "null"
    /\ (/\ last.op \in FileOps
        /\ last.returned /\ result # NULL
        /\ last.args.file.ok /\ last.args.file.channels > 2) =>
          /\ R.error = CreateFailedError
          /\ R.beats = NULL /\ R.num_beats = 0
          /\ last.windows = 0

\* C10, amended: analyzer_create returns null for more than 2 channels, and
\* the whole-file entry points of src/pkg/analysis/lib return a result with
\* the error 'Failed to create analyzer' and no beats, no window having
\* gone through the detection function.  analyzer_analyze_file of
\* src/analyzer/lib does not reject the file: it puts every window of the
\* file through the detection function and never returns that error.
C10_ManyChannelsRejectedByPkg ==
    /\ (last.op = "create" /\ last.args.channels > 2) =>
          handle = "null" /\ analyzer = NULL
    /\ (/\ last.op \in FileOps
        /\ last.returned /\ result # NULL
        /\ last.args.file.ok /\ last.args.file.channels > 2) =>
          IF last.op \in PkgFileOps
          THEN /\ R.error = CreateFailedError
               /\ R.beats = NULL /\ R.num_beats = 0
               /\ R.bpm = Rat(0, 1)
               /\ last.windows = 0
          ELSE /\ R.error # CreateFailedError
               /\ last.windows = Len(last.args.w.windows)
               /\ last.args.file.frames = MaxFileFrames => last.windows >= 4

\* analyzer_analyze_file of src/analyzer/lib has found beats in a file of
\* six channels
C10_SixChannelBeats ==
    /\ last.op = "lib_analyze_file"
    /\ last.args.file.channels = 6
    /\ result # NULL
    /\ R.error = NULL /\ R.num_beats >= 1
    /\ last.windows >= 4

----------------------------------------------------------------------------
(* Cue points *)

\* the cue points of the result the caller holds (none if the array is
\* absent)
Cues == IF R.cue_points = NULL THEN <<>> ELSE Deref(R.cue_points)

\* an extended result is held: one of analyzer_finalize, or of
\* analyzer_analyze_file_ex, which hands on the result of analyzer_finalize
ExResultHeld ==
    /\ result # NULL
    /\ last.returned
    /\ last.op \in {"finalize", "analyze_file_ex"}

\* the cue vector the last call handed to std::sort (empty if it did not
\* get that far)
Unsorted ==
    IF \E i \in DOMAIN last.calls : last.calls[i].fn = "sort"
    THEN last.calls[CHOOSE i \in DOMAIN last.calls : last.calls[i].fn = "sort"].args.cues
    ELSE <<>>

\* the place of a cue in the cue vector as it was generated
PlaceOf(cue) == CHOOSE i \in DOMAIN Unsorted : Unsorted[i] = cue

Ascending(cues) ==
    \A i \in 1..(Len(cues) - 1) : cues[i].time <= cues[i + 1].time

\* C11: in every result of analyzer_finalize (returned directly or through
\* analyzer_analyze_file_ex) the cue points are in ascending order of time:
\* c[i].time <= c[i+1].time for all adjacent cue points, whatever downbeats
\* and segments they come from.
C11_CuesAscending ==
    ExResultHeld => Ascending(Cues)

\* finalize has returned phrase and section cues that were generated out of
\* time order
C11_CuesReordered ==
    /\ FinalizeReturned
    /\ Len(Cues) >= 3
    /\ ~Ascending(Unsorted)
    /\ \E i, j \in DOMAIN Cues :
          Cues[i].type = CUE_TYPE_PHRASE /\ Cues[j].type = CUE_TYPE_SECTION

\* C12: the cue merge is a stable sort: cue points of equal time keep the
\* order they were generated in, so a phrase cue precedes a section cue of
\* the same time, and tied cues of one kind keep their generation order.
C12_StableMerge ==
    (ExResultHeld /\ R.cue_points # NULL) =>
        \A i, j \in DOMAIN Cues :
            (i < j /\ Cues[i].time = Cues[j].time) =>
                /\ ~(Cues[i].type = CUE_TYPE_SECTION /\ Cues[j].type = CUE_TYPE_PHRASE)
                /\ PlaceOf(Cues[i]) < PlaceOf(Cues[j])

\* the cue points of a kind, as places in the result's cue array
CuesOfType(type) == {i \in DOMAIN Cues : Cues[i].type = type}

\* the number of the downbeats at positions 0, 8, 16, ...
PhraseCount == (R.num_downbeats + 7) \div 8

\* C13: the result holds exactly one phrase cue for each downbeat at
\* position 0, 8, 16, ... of the downbeat sequence and no other phrase cue;
\* the cue of position 8k has the beat time of that downbeat, confidence 0.8
\* and type_index k.
C13_PhraseCues ==
    ExResultHeld =>
        /\ Cardinality(CuesOfType(CUE_TYPE_PHRASE)) = PhraseCount
        /\ \A k \in 0..(PhraseCount - 1) :
              /\ R.downbeats # NULL
              /\ R.beats # NULL
              /\ \E i \in CuesOfType(CUE_TYPE_PHRASE) :
                    Cues[i] = [time |-> Deref(R.beats)[Deref(R.downbeats)[8 * k + 1] + 1],
                               type |-> CUE_TYPE_PHRASE,
                               type_index |-> k,
                               confidence |-> Rat(8, 10)]

\* C14: the result holds exactly one section cue per segment (its time the
\* start of the segment, confidence 0.7, type_index the segment's type),
\* every cue point is a phrase or a section cue with a confidence in [0, 1],
\* and num_cue_points is the number of phrase cues plus the number of
\* segments.
C14_SectionCues ==
    ExResultHeld =>
        /\ Cardinality(CuesOfType(CUE_TYPE_SECTION)) = R.num_segments
        /\ \A n \in 1..R.num_segments :
              /\ R.segments # NULL
              /\ \E i \in CuesOfType(CUE_TYPE_SECTION) :
                    Cues[i] = [time |-> Deref(R.segments)[n].start,
                               type |-> CUE_TYPE_SECTION,
                               type_index |-> Deref(R.segments)[n].type,
                               confidence |-> Rat(7, 10)]
        /\ \A i \in DOMAIN Cues :
              /\ Cues[i].type \in {CUE_TYPE_PHRASE, CUE_TYPE_SECTION}
              /\ 0 <= Cues[i].confidence.n
              /\ Cues[i].confidence.n <= Cues[i].confidence.d
        /\ R.num_cue_points =
              Cardinality(CuesOfType(CUE_TYPE_PHRASE)) + R.num_segments

----------------------------------------------------------------------------
(* Configuration defaults *)

\* a field as the claims want it used: itself if positive, else its default
IntOrDefault(x, default) == IF x > 0 THEN x ELSE default
RatOrDefault(x, default) == IF x.n > 0 THEN x ELSE default

\* the analysis configuration the last call worked with
CallConfig ==
    IF last.op = "finalize" THEN Session.config
    ELSE getEffectiveConfig(last.args.config)

\* the invocations of a primitive in the last call
CallsOf(fn) == {i \in DOMAIN last.calls : last.calls[i].fn = fn}

\* C15: every numeric field of the AnalysisConfig that is non-positive
\* (step seconds, max bin Hz, detection-function type, dB rise, tempo hint,
\* alpha, tightness, beats per bar) is replaced by its default before it
\* reaches the window/step computation or a primitive: the window and the
\* step are computed from, and every primitive receives, the field if it is
\* positive and the default otherwise, never a zero or negative value.
C15_NonPositiveFieldsDefaulted ==
    /\ analyzer # NULL =>
          LET cfg == Session.config
              stepSecs == RatOrDefault(cfg.step_secs, Rat(1161, 100000))
              maxBinHz == IntOrDefault(cfg.max_bin_hz, 50)
          IN  /\ Session.stepSizeFrames = (Session.sampleRate * stepSecs.n) \div stepSecs.d
              /\ Session.windowSize = nextPowerOfTwo(Session.sampleRate \div maxBinHz)
              /\ Session.detectionFunction.DFType = IntOrDefault(cfg.df_type, 4)
              /\ Session.detectionFunction.DFType > 0
              /\ Session.detectionFunction.dbRise = RatOrDefault(cfg.db_rise, Rat(3, 1))
              /\ Session.detectionFunction.dbRise.n > 0
    /\ last.op \in {"finalize"} \cup PkgFileOps =>
          /\ \A i \in CallsOf("calculateBeatPeriod") :
                /\ last.calls[i].args.inputTempo =
                      RatOrDefault(CallConfig.input_tempo, Rat(120, 1))
                /\ last.calls[i].args.inputTempo.n > 0
          /\ \A i \in CallsOf("calculateBeats") :
                /\ last.calls[i].args.alpha = RatOrDefault(CallConfig.alpha, Rat(9, 10))
                /\ last.calls[i].args.alpha.n > 0
                /\ last.calls[i].args.tightness =
                      RatOrDefault(CallConfig.tightness, Rat(4, 1))
                /\ last.calls[i].args.tightness.n > 0
          /\ \A i \in CallsOf("setBeatsPerBar") :
                /\ last.calls[i].args.beatsPerBar =
                      IntOrDefault(CallConfig.beats_per_bar, 4)
                /\ last.calls[i].args.beatsPerBar > 0

\* finalize has run the tracker and the downbeat detector for a session
\* whose configuration has a negative dB rise and alpha and a tempo hint
\* and bar length of its own
C15_MixedConfigThroughDownbeats ==
    /\ FinalizeReturned
    /\ Session.config = MixedConfig
    /\ CallsOf("calculateBeats") # {}
    /\ CallsOf("setBeatsPerBar") # {}

\* C16: every non-positive field of a supplied SegmentationConfig (feature
\* type, hop size, window size, cluster count, hidden-state count) is
\* replaced by its default wherever the segmenter is called with it, the
\* cluster count handed to the segment step included: the segmenter never
\* receives a cluster count <= 0.
C16_SegFieldsDefaulted ==
    last.op \in {"finalize", "analyze_file_ex"} =>
        LET segCfg == getEffectiveSegConfig(last.args.seg_config)
        IN  /\ \A i \in CallsOf("ClusterMeltSegmenter") :
                  last.calls[i].args =
                      [featureType |-> IntOrDefault(segCfg.feature_type, 1),
                       hopSize |-> RatOrDefault(segCfg.hop_size, Rat(2, 10)),
                       windowSize |-> RatOrDefault(segCfg.window_size, Rat(6, 10)),
                       nHMMStates |-> IntOrDefault(segCfg.num_hmm_states, 40),
                       nclusters |-> IntOrDefault(segCfg.num_clusters, 10)]
            /\ \A i \in CallsOf("segment") :
                  /\ last.calls[i].args.nclusters = IntOrDefault(segCfg.num_clusters, 10)
                  /\ last.calls[i].args.nclusters > 0

\* sampleRate * stepSecs rounded to the nearest integer
RoundedStep(sampleRate, stepSecs) ==
    (2 * sampleRate * stepSecs.n + stepSecs.d) \div (2 * stepSecs.d)

\* C17: in every session analyzer_create accepts (sample rate > 0, 1 or 2
\* channels, any config) windowSize is a power of two >= 1, and the step in
\* frames is round(sampleRate * stepSeconds) and is >= 1.
C17_WindowAndStep ==
    analyzer # NULL =>
        /\ Session.windowSize >= 1
        /\ \E k \in 0..Session.windowSize : 2^k = Session.windowSize
        /\ Session.stepSizeFrames =
              RoundedStep(Session.sampleRate,
                          RatOrDefault(Session.config.step_secs, Rat(1161, 100000)))
        /\ Session.stepSizeFrames >= 1

----------------------------------------------------------------------------
(* Framing *)

\* the down-mixed mono stream of a session of that many channels: frame f
MonoSample(f, channels) ==
    IF channels = 1 THEN StreamSample(f, 1)
    ELSE (StreamSample(f, 1) + StreamSample(f, 2)) \div 2

\* The first emitted window followed, for each later window, by its suffix
\* of the samples added since the window before it.  prev is the number of
\* frames consumed when the window before the first of em was emitted.
RECURSIVE NewSamples(_, _)
NewSamples(em, prev) ==
    IF em = <<>> THEN <<>>
    ELSE LET w == Head(em).window
             added == IF prev = 0 THEN Len(w) ELSE Head(em).frames - prev
         IN  SubSeq(w, Len(w) - added + 1, Len(w))
             \o NewSamples(Tail(em), Head(em).frames)

\* C18: overlap shifting is lossless: for any sequence of process calls,
\* the first emitted window followed by the non-overlapping suffix (the
\* samples added since the previous window) of each later window is exactly
\* the down-mixed mono stream consumed up to the last emitted window:
\* nothing lost, duplicated or reordered.
C18_LosslessShift ==
    (analyzer # NULL /\ Session.emitted # <<>>) =>
        NewSamples(Session.emitted, 0) =
            [f \in 1..Session.emitted[Len(Session.emitted)].frames |->
                MonoSample(f, Session.channels)]

C20_BpmFromBeatTimes ==
    (result # NULL /\ last.returned /\ R.beats # NULL) =>
        LET n == R.num_beats
            t == Deref(R.beats)
        IN  /\ n >= 2 =>
                  /\ R.bpm.d # 0
                  /\ R.bpm.n * (t[n] - t[1]) =
                        60 * (n - 1) * (2 * R.sample_rate) * R.bpm.d
            /\ n = 1 => R.error = NULL /\ R.bpm = Rat(0, 1)

----------------------------------------------------------------------------
(* Staging *)

DownbeatFns ==
    {"DownBeat", "setBeatsPerBar", "pushAudioBlock", "getBufferedAudio",
     "findDownBeats", "getBeatSD"}
SegmenterFns == {"ClusterMeltSegmenter", "initialise", "segment"}

\* the place of a primitive in the order of the stages (0: none of them)
StageOf(fn) ==
    IF fn \in {"TempoTrackV2", "calculateBeatPeriod"} THEN 1
    ELSE IF fn = "calculateBeats" THEN 2
    ELSE IF fn \in DownbeatFns THEN 3
    ELSE IF fn \in SegmenterFns THEN 4
    ELSE IF fn = "sort" THEN 5
    ELSE 0

\* the positions of a primitive in a trace of invocations
Places(calls, fn) == {i \in DOMAIN calls : calls[i].fn = fn}

\* the windows of a history of emissions
WindowsIn(em) == [i \in DOMAIN em |-> em[i].window]

\* a trace holds whole-track stages only, each at most once and in their
\* order, the beat placement after the beat periods and every later stage
\* after the beat placement
StagesInOrder(calls) ==
    /\ \A i \in DOMAIN calls : StageOf(calls[i].fn) >= 1
    /\ \A i, j \in DOMAIN calls :
          i < j => StageOf(calls[i].fn) <= StageOf(calls[j].fn)
    /\ \A fn \in {"calculateBeatPeriod", "calculateBeats", "findDownBeats",
                  "segment", "sort"} :
          Cardinality(Places(calls, fn)) <= 1
    /\ Places(calls, "calculateBeats") # {} => Places(calls, "calculateBeatPeriod") # {}
    /\ (\E i \in DOMAIN calls : StageOf(calls[i].fn) >= 3) =>
          Places(calls, "calculateBeats") # {}

\* C21: in every sequence create, process*, finalize the detection function
\* is invoked inside process only, once per emitted window and in window
\* order; the beat-period, beat-placement, downbeat and segmentation
\* primitives and the cue synthesis are invoked inside finalize only, each
\* at most once per finalize and in the order beat period, beat placement,
\* downbeat (only with 4 beats or more), segmentation (only with a
\* segmentation config), cue synthesis.
C21_StagesInOrder ==
    [][/\ (last'.op = "process" /\ last'.returned) =>
             /\ \A i \in DOMAIN last'.calls : last'.calls[i].fn = "processTimeDomain"
             /\ WindowsIn(Deref(analyzer').emitted) =
                   WindowsIn(Deref(analyzer).emitted)
                   \o [i \in DOMAIN last'.calls |-> last'.calls[i].args.window]
             /\ Len(Deref(analyzer').detectionResults) =
                   Len(Deref(analyzer).detectionResults) + Len(last'.calls)
       /\ (last'.op # "process" /\ analyzer # NULL /\ analyzer' # NULL) =>
             Deref(analyzer').emitted = Deref(analyzer).emitted
       /\ last'.op \notin {"process", "finalize"} \cup FileOps => last'.calls = <<>>
       /\ last'.op = "finalize" =>
             /\ StagesInOrder(last'.calls)
             /\ (\E i \in DOMAIN last'.calls : last'.calls[i].fn \in DownbeatFns) =>
                   result' # NULL /\ Deref(result').num_beats >= 4
             /\ \A i \in Places(last'.calls, "findDownBeats") :
                   Len(last'.calls[i].args.beats) >= 4
             /\ (\E i \in DOMAIN last'.calls : last'.calls[i].fn \in SegmenterFns) =>
                   last'.args.seg_config # NULL]_vars

\* finalize has run every stage: the tracker, the downbeat detector, the
\* segmenter and the cue synthesis, after process had run the detection
\* function on 4 windows or more
C21_EveryStageRun ==
    /\ FinalizeReturned
    /\ Len(Session.emitted) >= 4
    /\ Places(last.calls, "calculateBeats") # {}
    /\ Places(last.calls, "findDownBeats") # {}
    /\ Places(last.calls, "segment") # {}
    /\ Places(last.calls, "sort") # {}

NoBeatsError == Ptr("No beats detected")
AllocationFailedError == Ptr("Memory allocation failed")
TempoStageErrors ==
    {NotEnoughAudioError, NoValidResultsError, NoBeatsError, AllocationFailedError}

\* the error the tempo stage of the last finalize call has to set, given
\* the detection function of the session, the tracker's beats and whether
\* the beats buffer could be allocated (NULL: none)
TempoStageFailure ==
    IF Len(Session.detectionResults) < 4 THEN NotEnoughAudioError
    ELSE IF LastPositive(Session.detectionResults) <= 2 THEN NoValidResultsError
    ELSE IF last.args.env.beats = <<>> THEN NoBeatsError
    ELSE IF "beats" \in last.args.fail THEN AllocationFailedError
    ELSE NULL

\* C22: a failure of the tempo stage short-circuits the pipeline: when
\* finalize sets 'Not enough audio data for beat detection', 'No valid
\* detection results', 'No beats detected' or 'Memory allocation failed',
\* the downbeat, segmentation and cue-synthesis stages are not run, even
\* with a segmentation config and audio history, and the result is returned
\* with that error.
C22_TempoFailureShortCircuits ==
    FinalizeReturned =>
        /\ R.error = TempoStageFailure
        /\ R.error \in TempoStageErrors =>
              /\ \A i \in DOMAIN last.calls : StageOf(last.calls[i].fn) \in {1, 2}
              /\ R.downbeats = NULL /\ R.num_downbeats = 0
              /\ R.beat_spectral_diff = NULL /\ R.bsd_length = 0
              /\ R.segments = NULL /\ R.num_segments = 0
              /\ R.cue_points = NULL /\ R.num_cue_points = 0

\* finalize with a segmentation config, on a session with audio history,
\* has returned 'Memory allocation failed' after the tracker had run
C22_FailedWithSegConfig ==
    /\ FinalizeReturned
    /\ last.args.seg_config # NULL
    /\ Session.audioBuffer # <<>>
    /\ R.error = AllocationFailedError
    /\ Places(last.calls, "calculateBeats") # {}

----------------------------------------------------------------------------
(* Reference framing *)

\* the windows of W frames, h frames apart, of the first n frames of the
\* down-mixed stream
ReferenceWindows(n, W, h, channels) ==
    [k \in 1..(IF n < W THEN 0 ELSE (n - W) \div h + 1) |->
        [i \in 1..W |-> MonoSample((k - 1) * h + i, channels)]]

\* C23: the windows handed to the detection function are the reference
\* framing of the down-mixed mono stream s (mono as it is, stereo averaged
\* per frame) with window W and step p: for 1 <= p < W window k is
\* s[k*p .. k*p+W) for every k with k*p+W <= |s|; for p >= W window k is
\* s[k*W .. (k+1)*W) for every k with (k+1)*W <= |s|; and
\* analyzer_get_df_count returns the number of these windows (0 for a null
\* handle).
C23_ReferenceFraming ==
    /\ (analyzer # NULL /\ Session.stepSizeFrames >= 1) =>
          LET W == Session.windowSize
              p == Session.stepSizeFrames
              ref == ReferenceWindows(Session.totalFramesProcessed, W,
                                      IF p < W THEN p ELSE W, Session.channels)
          IN  /\ WindowsIn(Session.emitted) = ref
              /\ analyzer_get_df_count(analyzer) = Len(ref)
              /\ (last.op = "get_df_count" /\ ~last.args.null) => last.ret = Len(ref)
    /\ (last.op = "get_df_count" /\ last.args.null) => last.ret = 0

\* analyzer_get_df_count has returned 2 or more for a stereo session whose
\* windows overlap
C23_OverlappingStereoWindows ==
    /\ last.op = "get_df_count"
    /\ ~last.args.null
    /\ last.ret >= 2
    /\ Session.channels = 2
    /\ Session.stepSizeFrames >= 1
    /\ Session.stepSizeFrames < Session.windowSize

----------------------------------------------------------------------------
(* Trimming and beat times *)

\* the environment of the last finalize or whole-file call
CallEnv == IF last.op = "finalize" THEN last.args.env ELSE last.args.w.env

\* C24: the sequence passed to the tempo tracker is DF[2 .. n), n one past
\* the index of the last value > 0: only the first 2 values and the
\* trailing run of values <= 0 are removed and the values <= 0 in the
\* interior stay in place; the beat-period array has (n - 2) div 128 + 1
\* entries; and a returned beat index i becomes the time
\* ((i + 2) * stepSamples + stepSamples / 2) / sampleRate (here in half
\* frames: 2 * (i + 2) * stepSamples + stepSamples).
C24_TrimmedAndTimed ==
    (last.op \in {"finalize"} \cup FileOps /\ last.returned /\ result # NULL) =>
        LET n == LastPositive(LastDF)
            given == [i \in 1..(n - 2) |-> LastDF[i + 2]]
        IN  /\ \A i \in Places(last.calls, "calculateBeatPeriod") :
                  /\ last.calls[i].args.df = given
                  /\ last.calls[i].args.periods = (n - 2) \div 128 + 1
            /\ \A i \in Places(last.calls, "calculateBeats") :
                  last.calls[i].args.df = given
            /\ (IsEx(R) /\ TrackerInvoked) => R.bp_length = (n - 2) \div 128 + 1
            /\ R.beats # NULL =>
                  /\ TrackerInvoked
                  /\ \A i \in Places(last.calls, "TempoTrackV2") :
                        LET stepSamples == last.calls[i].args.stepSizeFrames
                        IN  Deref(R.beats) =
                                [k \in DOMAIN CallEnv.beats |->
                                    2 * (CallEnv.beats[k] + 2) * stepSamples + stepSamples]

\* a whole-file call has handed the tracker 128 values or more, one of
\* them in the interior not positive, and room for 2 beat periods, and has
\* returned 2 beats or more
C24_LongTrack ==
    /\ last.op \in FileOps
    /\ result # NULL /\ R.num_beats >= 2
    /\ \E i \in Places(last.calls, "calculateBeatPeriod") :
          /\ last.calls[i].args.periods = 2
          /\ Len(last.calls[i].args.df) >= 128
          /\ \E k \in 2..128 : last.calls[i].args.df[k] <= 0

----------------------------------------------------------------------------
(* Chunking and bounds *)

\* the session an had it been fed its whole stream in one analyzer_process
\* call, the detection function returning what it returned to an
FedAtOnce(an) ==
    LET fresh == QMAnalyzer(an.sampleRate, an.channels, an.config)
        n == an.totalFramesProcessed
    IN  IF n = 0 THEN fresh
        ELSE ProcessBody(fresh, StreamChunk(0, n, an.channels), n,
                         an.detectionResults).an

C26_WritesInBounds ==
    [][/\ last'.op = "process" => last'.returned
       /\ analyzer' # NULL =>
             /\ 0 <= Deref(analyzer').overlapPos
             /\ Deref(analyzer').overlapPos < Deref(analyzer').windowSize
             /\ Deref(analyzer').totalFramesProcessed = Len(Deref(analyzer').audioBuffer)
       /\ (last'.op = "process" /\ last'.returned) =>
             Deref(analyzer').totalFramesProcessed =
                 Deref(analyzer).totalFramesProcessed + last'.args.num_frames
       /\ (last'.op \notin {"process", "create"} /\ analyzer' # NULL) =>
             Deref(analyzer').totalFramesProcessed =
                 Deref(analyzer).totalFramesProcessed]_vars

\* C27: analyzer_finalize leaves the session unchanged: the DF sequence,
\* the overlap buffer and position, the audio history, the frame counter
\* and the configuration are after finalize what they were before it, on
\* the success path and on every error path; hence analyzer_get_df_count
\* returns the same value before and after finalize, and the session is
\* released by analyzer_destroy only.
C27_FinalizeLeavesSession ==
    [][/\ last'.op = "finalize" =>
             /\ handle' = handle
             /\ analyzer' = analyzer
             /\ analyzer_get_df_count(analyzer') = analyzer_get_df_count(analyzer)
       /\ (analyzer # NULL /\ analyzer' = NULL) => last'.op = "destroy"]_vars

\* finalize has returned beats for a session of 4 windows or more that is
\* still live and still holds them
C27_LiveAfterSuccess ==
    /\ FinalizeReturned
    /\ R.error = NULL /\ R.num_beats >= 1
    /\ handle = "live"
    /\ analyzer_get_df_count(analyzer) >= 4
    /\ Session.audioBuffer # <<>>

----------------------------------------------------------------------------
(* Resources of the whole-file calls *)

\* how often a free was made of the object or array x
TimesFreed(x) == Cardinality({i \in DOMAIN last.ledger.freed : last.ledger.freed[i] = x})

\* the members the basic result takes from the extended one
BasicFields ==
    {"bpm", "num_beats", "sample_rate", "total_frames", "duration", "beats", "error"}

\* C28: on every path of analyzer_analyze_file_ex and
\* analyzer_analyze_file_config (file open failure, session creation
\* failure, process error, finalize returning null, finalize error result,
\* success) an opened file is closed exactly once, a created session is
\* destroyed exactly once, exactly one result object is returned and every
\* other allocated result object is freed exactly once; after the
\* conversion to the basic result the beats array and the error string
\* belong to the returned basic result only (not freed with the extended
\* result, not left without an owner), and the basic result's bpm,
\* num_beats, sample_rate, total_frames, duration, beats and error are
\* those of the extended result.  (Where a result object cannot be
\* allocated at all, nothing is returned and nothing is left allocated.)
C28_ResourcesBalanced ==
    (last.op \in PkgFileOps /\ last.returned) =>
        LET L == last.ledger
            w == last.args.w
        IN  /\ L.opens = (IF w.calloc /\ last.args.file.ok THEN 1 ELSE 0)
            /\ L.closes = L.opens
            /\ L.creates \in {0, 1}
            /\ L.destroys = L.creates
            /\ (w.calloc /\ w.calloc2) => result # NULL
            /\ (result # NULL) <=> (L.returned \in L.objects)
            /\ result = NULL => L.returned = "none"
            /\ \A o \in L.objects :
                  TimesFreed(<<o, "struct">>) = (IF o = L.returned THEN 0 ELSE 1)
            /\ L.held \subseteq L.arrays
            /\ \A a \in L.arrays : TimesFreed(a) = (IF a \in L.held THEN 0 ELSE 1)
            /\ \A i \in DOMAIN L.freed :
                  L.freed[i] \in L.arrays \cup {<<o, "struct">> : o \in L.objects}
            /\ result # NULL =>
                  \A i \in DOMAIN PtrFields :
                      PtrFields[i] \in DOMAIN R =>
                          ((R[PtrFields[i]] # NULL)
                              <=> (\E a \in L.held : a[2] = PtrFields[i]))
            /\ (last.op # "analyze_file_ex" /\ result # NULL) =>
                  /\ L.ex # NULL
                  /\ L.returned = "basic"
                  /\ DOMAIN R = BasicFields
                  /\ \A f \in BasicFields : R[f] = Deref(L.ex)[f]
                  /\ \A f \in {"beats", "error"} :
                        Deref(L.ex)[f] # NULL =>
                            \E a \in L.held : a[2] = f /\ TimesFreed(a) = 0

\* analyzer_analyze_file_config has returned a basic result with beats: the
\* file was closed, the session destroyed, and the extended result freed
\* with its detection-function copy
C28_ConvertedWithBeats ==
    /\ last.op = "analyze_file_config"
    /\ last.returned
    /\ result # NULL /\ R.beats # NULL /\ R.num_beats >= 1
    /\ last.ledger.closes = 1 /\ last.ledger.destroys = 1
    /\ TimesFreed(<<"finalResult", "struct">>) = 1
    /\ TimesFreed(<<"finalResult", "detection_function">>) = 1
    /\ TimesFreed(<<"result", "struct">>) = 1

====
